---- MODULE Spec2Model ----
(***************************************************************************)
(* A model of the go-librenms client library: the partial-update builders  *)
(* (ServiceUpdateRequest, LocationUpdateRequest, AlertsQuery), the JSON    *)
(* encoding of request bodies, the Bool and Float64 codecs and the         *)
(* response normalisers, the construction of the client and the steps of   *)
(* one call.                                                               *)
(*                                                                         *)
(* Go strings and byte slices are sequences of one-character strings       *)
(* ("" is << >>).  A Go value carries its kind in field k; a JSON value    *)
(* carries its type in field t.                                            *)
(***************************************************************************)
EXTENDS Integers, Sequences, FiniteSets, TLC

VARIABLES
    client,     \* the Client that New returned
    builder,    \* the partial-update builder the caller is filling in
    call,       \* the client operation called last, with its arguments
    sent,       \* the request that operation built
    bval,       \* a Bool variable of the caller
    fval,       \* a Float64 variable of the caller
    codec,      \* the codec method called last: its input, output and error
    reply,      \* what the API answers to the client's request
    resp        \* what the last Get operation returned to its caller

vars == <<client, builder, call, sent, bval, fval, codec, reply, resp>>

----------------------------------------------------------------------------
(* Go values and pointers *)

\* A nil pointer, and a pointer to a copy of v (r.Name = &name).
Nil == [set |-> FALSE]
Ptr(v) == [set |-> TRUE, v |-> v]

GoString(s) == [k |-> "string", s |-> s]
GoInt(n) == [k |-> "int", n |-> n]
GoBool(b) == [k |-> "bool", b |-> b]
GoFloat(f) == [k |-> "float64", f |-> f]
\* the library's named type Bool
GoBoolT(b) == [k |-> "Bool", b |-> b]
\* []int: nil or a list
GoInts(a) == [k |-> "ints", isNil |-> FALSE, a |-> a]
GoNilInts == [k |-> "ints", isNil |-> TRUE, a |-> << >>]
\* *string
GoStringPtr(p) == [k |-> "*string", p |-> p]

\* map[string]interface{}: a function from the keys present to Go values.
EmptyMap == << >>
Put(m, key, v) == [x \in (DOMAIN m) \cup {key} |-> IF x = key THEN v ELSE m[x]]

----------------------------------------------------------------------------
(* Floating point.  A float is [neg, m, e]: (-1)^neg * m * 2^e, with a       *)
(* mantissa of MantBits bits and the exponent e of its last bit between      *)
(* -FracBits and ExpMax; it is normalised as an IEEE-754 value is (the top   *)
(* mantissa bit set unless e = -FracBits, and zero is m = 0, e = -FracBits). *)
(* float64 has 53 mantissa bits; the model keeps the format and shrinks it.  *)
(* Decimal values are integers counted in units of 10^-FracBits, in which    *)
(* every float is exact.                                                     *)

MantBits == 7
FracBits == 4
ExpMax == 2

MantMax == 2^MantBits - 1
Unit == 10^FracBits
\* the value of the last mantissa bit at exponent e, in units
Ulp(e) == 2^(e + FracBits) * 5^FracBits

Normal(f) ==
    /\ f.m \in 0..MantMax
    /\ f.e \in (-FracBits)..ExpMax
    /\ (f.e > -FracBits => f.m >= 2^(MantBits - 1))

Floats == {f \in [neg : BOOLEAN, m : 0..MantMax, e : (-FracBits)..ExpMax] : Normal(f)}

\* |f| in units
Magnitude(f) == f.m * Ulp(f.e)
MaxMagnitude == MantMax * Ulp(ExpMax)

\* Go's == on floats: -0 == +0
FloatEq(f, g) == Magnitude(f) = Magnitude(g) /\ (f.neg = g.neg \/ Magnitude(f) = 0)

\* c / u rounded to the nearest integer, ties to the even one
RoundHalfEven(c, u) ==
    LET q == c \div u
        r == c % u
    IN  IF 2 * r < u THEN q
        ELSE IF 2 * r > u THEN q + 1
        ELSE IF q % 2 = 0 THEN q ELSE q + 1

\* The exponents at which the magnitude c, in units of 10^-(FracBits+k), rounds
\* to a mantissa that fits.
FittingExps(c, k) ==
    {e \in (-FracBits)..ExpMax : RoundHalfEven(c, Ulp(e) * 10^k) <= MantMax}

Min(S) == CHOOSE x \in S : \A y \in S : x <= y

\* The float nearest to (-1)^neg * c * 10^-(FracBits+k) (IEEE round to nearest
\* even), or "range" when it lies beyond the largest float.
NearestFloatScaled(neg, c, k) ==
    IF FittingExps(c, k) = {} THEN [ok |-> FALSE, err |-> "range"]
    ELSE LET e == Min(FittingExps(c, k))
         IN  [ok |-> TRUE,
              f |-> [neg |-> neg, m |-> RoundHalfEven(c, Ulp(e) * 10^k), e |-> e]]

NearestFloat(neg, c) == NearestFloatScaled(neg, c, 0)

\* +Inf, -Inf and NaN, held as IEEE-754 holds them: above the largest exponent.
Inf(neg) == [neg |-> neg, m |-> 0, e |-> ExpMax + 1]
NaN == [neg |-> FALSE, m |-> 1, e |-> ExpMax + 1]
IsFinite(f) == f.e <= ExpMax

----------------------------------------------------------------------------
(* strconv.Itoa *)

DigitChar(d) == <<"0", "1", "2", "3", "4", "5", "6", "7", "8", "9">>[d + 1]

RECURSIVE NatChars(_)
NatChars(n) == IF n < 10 THEN <<DigitChar(n)>>
               ELSE NatChars(n \div 10) \o <<DigitChar(n % 10)>>

Itoa(n) == IF n < 0 THEN <<"-">> \o NatChars(-n) ELSE NatChars(n)

----------------------------------------------------------------------------
(* Text helpers *)

Digits == {"0", "1", "2", "3", "4", "5", "6", "7", "8", "9"}
DigitVal(c) == CHOOSE d \in 0..9 : DigitChar(d) = c
AllDigits(s) == \A i \in 1..Len(s) : s[i] \in Digits

\* The first index of s holding a character of set C, or Len(s) + 1.
Index(s, C) == Min({i \in 1..Len(s) : s[i] \in C} \cup {Len(s) + 1})

RECURSIVE DigitsToNat(_)
DigitsToNat(s) == IF s = << >> THEN 0
                  ELSE 10 * DigitsToNat(SubSeq(s, 1, Len(s) - 1)) + DigitVal(s[Len(s)])

RECURSIVE StripLeadingZeros(_)
StripLeadingZeros(s) == IF s # << >> /\ s[1] = "0" THEN StripLeadingZeros(Tail(s)) ELSE s

Lower(c) == CASE c = "I" -> "i" [] c = "N" -> "n" [] c = "F" -> "f" [] c = "A" -> "a"
              [] c = "T" -> "t" [] c = "Y" -> "y" [] c = "E" -> "e" [] OTHER -> c
LowerAll(s) == [i \in 1..Len(s) |-> Lower(s[i])]

\* The parts of a decimal text: sign, integer digits, fraction, exponent.
NumberParts(s) ==
    LET signed == s # << >> /\ s[1] \in {"+", "-"}
        t == IF signed THEN Tail(s) ELSE s
        ePos == Index(t, {"e", "E"})
        mant == SubSeq(t, 1, ePos - 1)
        ex == SubSeq(t, ePos + 1, Len(t))
        exSigned == ex # << >> /\ ex[1] \in {"+", "-"}
        dotPos == Index(mant, {"."})
    IN  [sign |-> IF signed THEN s[1] ELSE "",
         ip |-> SubSeq(mant, 1, dotPos - 1),
         hasDot |-> dotPos <= Len(mant),
         fp |-> SubSeq(mant, dotPos + 1, Len(mant)),
         hasExp |-> ePos <= Len(t),
         expSign |-> IF exSigned THEN ex[1] ELSE "",
         expDigits |-> IF exSigned THEN Tail(ex) ELSE ex]

\* The JSON number grammar: -? (0 | [1-9][0-9]*) (. [0-9]+)? ([eE] [+-]? [0-9]+)?
IsJSONNumber(s) ==
    LET p == NumberParts(s)
    IN  /\ p.sign \in {"", "-"}
        /\ p.ip # << >> /\ AllDigits(p.ip) /\ (Len(p.ip) = 1 \/ p.ip[1] # "0")
        /\ (p.hasDot => p.fp # << >> /\ AllDigits(p.fp))
        /\ (~p.hasDot => p.fp = << >>)
        /\ (p.hasExp => p.expDigits # << >> /\ AllDigits(p.expDigits))

----------------------------------------------------------------------------
(* strconv.ParseInt(s, 10, 64).  An int64 does not fit TLC's 32-bit           *)
(* integers: a Go int is [neg, mag], its magnitude the decimal digits         *)
(* without leading zeros (zero is << >>).                                     *)

MaxInt64 == <<"9", "2", "2", "3", "3", "7", "2", "0", "3", "6", "8", "5", "4", "7", "7", "5", "8", "0", "7">>
MinInt64 == <<"9", "2", "2", "3", "3", "7", "2", "0", "3", "6", "8", "5", "4", "7", "7", "5", "8", "0", "8">>

\* a <= b for magnitudes
RECURSIVE LexLeq(_, _)
LexLeq(a, b) == IF a = << >> THEN TRUE
                ELSE IF DigitVal(a[1]) # DigitVal(b[1]) THEN DigitVal(a[1]) < DigitVal(b[1])
                ELSE LexLeq(Tail(a), Tail(b))
MagLeq(a, b) == Len(a) < Len(b) \/ (Len(a) = Len(b) /\ LexLeq(a, b))

IntZero == [neg |-> FALSE, mag |-> << >>]
IntOf(n) == [neg |-> n < 0, mag |-> StripLeadingZeros(NatChars(IF n < 0 THEN -n ELSE n))]

ParseInt(s) ==
    LET signed == s # << >> /\ s[1] \in {"+", "-"}
        neg == signed /\ s[1] = "-"
        body == IF signed THEN Tail(s) ELSE s
        mag == StripLeadingZeros(body)
    IN  IF body = << >> \/ ~AllDigits(body) THEN [ok |-> FALSE, err |-> "syntax"]
        ELSE IF ~MagLeq(mag, IF neg THEN MinInt64 ELSE MaxInt64)
             THEN [ok |-> FALSE, err |-> "range"]
             ELSE [ok |-> TRUE, n |-> [neg |-> neg /\ mag # << >>, mag |-> mag]]

----------------------------------------------------------------------------
(* strconv.FormatFloat(f, 'f', -1, 64): the shortest decimal that parses     *)
(* back to f, laid out without an exponent.                                  *)

Pow10(n) == 10^n

\* Whether the decimal magnitude c (in units) parses back to the finite float f.
ParsesTo(f, c) ==
    LET r == NearestFloat(f.neg, c) IN r.ok /\ r.f = f

\* The decimals with all digits below 10^g (in units) zero that parse back to
\* f: the neighbours of f on that grid.
GridCandidates(f, g) ==
    LET lo == (Magnitude(f) \div g) * g
    IN  {c \in {lo, lo + g} : ParsesTo(f, c)}

\* Of the candidates on one grid the nearest to f, and of two equally near the
\* one with the even last digit.
Nearest(f, g, S) ==
    CHOOSE c \in S : \A d \in S :
        LET dc == IF c >= Magnitude(f) THEN c - Magnitude(f) ELSE Magnitude(f) - c
            dd == IF d >= Magnitude(f) THEN d - Magnitude(f) ELSE Magnitude(f) - d
        IN  dc < dd \/ (dc = dd /\ (c = d \/ (c \div g) % 2 = 0))

\* The number of decimal digits of MaxMagnitude: the coarsest grid to try.
RECURSIVE NumDigits(_)
NumDigits(n) == IF n < 10 THEN 1 ELSE 1 + NumDigits(n \div 10)

\* The shortest decimal: the coarsest grid that holds a candidate decides the
\* number of digits (prec = -1).
RECURSIVE ShortestFrom(_, _)
ShortestFrom(f, q) ==
    IF q = 0 \/ GridCandidates(f, Pow10(q)) # {}
    THEN IF GridCandidates(f, Pow10(q)) # {}
         THEN Nearest(f, Pow10(q), GridCandidates(f, Pow10(q)))
         ELSE Magnitude(f)
    ELSE ShortestFrom(f, q - 1)

ShortestDecimal(f) ==
    IF Magnitude(f) = 0 THEN 0 ELSE ShortestFrom(f, NumDigits(MaxMagnitude))

\* n as exactly w digits, zero-padded on the left
RECURSIVE PadDigits(_, _)
PadDigits(n, w) == IF w = 0 THEN << >>
                   ELSE PadDigits(n \div 10, w - 1) \o <<DigitChar(n % 10)>>

RECURSIVE TrailingZeros(_, _)
TrailingZeros(n, w) == IF w = 0 \/ n % 10 # 0 THEN 0
                       ELSE 1 + TrailingZeros(n \div 10, w - 1)

\* The 'f' layout of the decimal magnitude c: the integer part, then "." and
\* the fraction digits that are needed (none, and no ".", for an integer).
FixedLayout(neg, c) ==
    LET ip == c \div Unit
        fp == c % Unit
        tz == TrailingZeros(fp, FracBits)
        prec == FracBits - tz
    IN  (IF neg THEN <<"-">> ELSE << >>)
        \o NatChars(ip)
        \o (IF prec = 0 THEN << >> ELSE <<".">> \o PadDigits(fp \div Pow10(tz), prec))

FormatFloat(f) ==
    IF f = NaN THEN <<"N", "a", "N">>
    ELSE IF ~IsFinite(f)
         THEN (IF f.neg THEN <<"-">> ELSE <<"+">>) \o <<"I", "n", "f">>
         ELSE FixedLayout(f.neg, ShortestDecimal(f))

----------------------------------------------------------------------------
(* strconv.ParseFloat(s, 64) *)

\* "inf", "infinity" (with a sign or none) and "nan", in any case
ParseSpecial(s) ==
    LET signed == s # << >> /\ s[1] \in {"+", "-"}
        t == LowerAll(IF signed THEN Tail(s) ELSE s)
    IN  IF t \in {<<"i", "n", "f">>, <<"i", "n", "f", "i", "n", "i", "t", "y">>}
        THEN [ok |-> TRUE, f |-> Inf(signed /\ s[1] = "-")]
        ELSE IF ~signed /\ t = <<"n", "a", "n">> THEN [ok |-> TRUE, f |-> NaN]
        ELSE [ok |-> FALSE, err |-> "syntax"]

\* The decimal d * 10^q, d > 0, correctly rounded: beyond the largest float it
\* is a range error, below half the smallest it is zero.
RoundDecimal(neg, d, q) ==
    IF NumDigits(d) + q + FracBits > NumDigits(MaxMagnitude) + 1
    THEN [ok |-> FALSE, err |-> "range"]
    ELSE IF NumDigits(d) + q <= -FracBits
    THEN [ok |-> TRUE, f |-> [neg |-> neg, m |-> 0, e |-> -FracBits]]
    ELSE IF q >= -FracBits
    THEN NearestFloatScaled(neg, d * Pow10(q + FracBits), 0)
    ELSE NearestFloatScaled(neg, d, -q - FracBits)

ParseFloat(s) ==
    LET p == NumberParts(s)
        mant == StripLeadingZeros(p.ip \o p.fp)
        ex == DigitsToNat(p.expDigits)
        q == (IF p.expSign = "-" THEN -ex ELSE ex) - Len(p.fp)
    IN  IF ParseSpecial(s).ok THEN ParseSpecial(s)
        ELSE IF \/ ~AllDigits(p.ip) \/ ~AllDigits(p.fp) \/ p.ip \o p.fp = << >>
                \/ (p.hasExp /\ (p.expDigits = << >> \/ ~AllDigits(p.expDigits)))
        THEN [ok |-> FALSE, err |-> "syntax"]
        ELSE IF mant = << >>
        THEN [ok |-> TRUE, f |-> [neg |-> p.sign = "-", m |-> 0, e |-> -FracBits]]
        ELSE RoundDecimal(p.sign = "-", DigitsToNat(mant), q)

----------------------------------------------------------------------------
(* JSON values, and encoding/json's Unmarshal into a scalar target *)

JNull == [t |-> "null"]
JBool(b) == [t |-> "bool", b |-> b]
JNumber(text) == [t |-> "number", text |-> text]
JString(s) == [t |-> "string", s |-> s]
JObject(m) == [t |-> "object", m |-> m]
JArray(a) == [t |-> "array", a |-> a]
\* bytes that are no JSON value
JInvalid == [t |-> "invalid"]

\* json.Unmarshal(data, &v) for v of kind bool, int, float64 or string, v
\* holding old: null leaves v as it is and reports no error; a value of
\* another JSON type, or a number the kind cannot hold, is an error.
JsonUnmarshal(data, kind, old) ==
    IF data.t = "invalid" THEN [err |-> "syntax", v |-> old]
    ELSE IF data.t = "null" THEN [err |-> "", v |-> old]
    ELSE IF kind = "bool" /\ data.t = "bool" THEN [err |-> "", v |-> data.b]
    ELSE IF kind = "string" /\ data.t = "string" THEN [err |-> "", v |-> data.s]
    ELSE IF kind = "int" /\ data.t = "number"
    THEN IF ParseInt(data.text).ok THEN [err |-> "", v |-> ParseInt(data.text).n]
         ELSE [err |-> "type", v |-> old]
    ELSE IF kind = "float64" /\ data.t = "number"
    THEN IF ParseFloat(data.text).ok THEN [err |-> "", v |-> ParseFloat(data.text).f]
         ELSE [err |-> "type", v |-> old]
    ELSE [err |-> "type", v |-> old]

----------------------------------------------------------------------------
(* encoding/json's Marshal, as the request encoder runs it *)

\* A value encoded by the Marshaler its type declares on the pointer receiver:
\* the encoder can call it only on a value it can take the address of.
RawNumber(text) == JNumber(text)

\* isEmptyValue: what omitempty leaves out
IsEmptyValue(v) ==
    CASE v.k = "string" -> v.s = << >>
      [] v.k = "int" -> v.n = 0
      [] v.k \in {"bool", "Bool"} -> v.b = FALSE
      [] v.k = "float64" -> Magnitude(v.f) = 0
      [] v.k = "ints" -> Len(v.a) = 0
      [] v.k = "*string" -> ~v.p.set

----------------------------------------------------------------------------
(* The Bool codec *)

\* A MarshalJSON with the two numerals the wrong way round.
BoolMarshalJSONInverted(b) == IF b THEN <<"0">> ELSE <<"1">>

\* (*Bool).MarshalJSON
BoolMarshalJSON(b) == IF b THEN <<"1">> ELSE <<"0">>

\* A conversion that takes 1 alone for true.
IntToBoolOnlyOne(n) == n = IntOf(1)

\* *b = value != 0
IntToBool(n) == n # IntZero

\* (*Bool).UnmarshalJSON(data), the target holding old: the error ("" for nil)
\* and the value the target holds afterwards.
BoolUnmarshalJSON(data, old) ==
    LET asBool == JsonUnmarshal(data, "bool", FALSE)
        asInt == JsonUnmarshal(data, "int", IntZero)
    IN  IF asBool.err = "" THEN [err |-> "", v |-> asBool.v]
        ELSE IF asInt.err # "" THEN [err |-> "failed to unmarshal Bool", v |-> old]
        ELSE [err |-> "", v |-> IntToBool(asInt.v)]

\* How encoding/json encodes a Bool: through MarshalJSON when the value is
\* addressable (a field of a struct reached through a pointer, or a *Bool),
\* and as the plain bool it is underneath when it is not (a Bool passed by
\* value, a map element), because MarshalJSON has a pointer receiver.
EncodeBoolT(b, addressable) ==
    IF addressable THEN RawNumber(BoolMarshalJSON(b)) ELSE JBool(b)

\* The scalar and list cases of the encoder.
EncodeValue(v, addressable) ==
    CASE v.k = "string" -> JString(v.s)
      [] v.k = "int" -> JNumber(Itoa(v.n))
      [] v.k = "bool" -> JBool(v.b)
      [] v.k = "float64" -> JNumber(FormatFloat(v.f))
      [] v.k = "Bool" -> EncodeBoolT(v.b, addressable)
      [] v.k = "ints" -> IF v.isNil THEN JNull
                         ELSE JArray([i \in 1..Len(v.a) |-> JNumber(Itoa(v.a[i]))])
      [] v.k = "*string" -> IF v.p.set THEN JString(v.p.v) ELSE JNull

\* map[string]interface{}: every key, its element encoded as a value that is
\* not addressable.
EncodeMap(m) == JObject([key \in DOMAIN m |-> EncodeValue(m[key], FALSE)])

\* A struct is the list of its fields [name, v, omitempty] (name the json tag);
\* its fields are addressable when the struct is.
KeptFields(fields, addressable) ==
    {i \in 1..Len(fields) : ~(fields[i].omitempty /\ IsEmptyValue(fields[i].v))}

EncodeStruct(fields, addressable) ==
    LET kept == KeptFields(fields, addressable)
        at(name) == CHOOSE i \in kept : fields[i].name = name
    IN  JObject([name \in {fields[i].name : i \in kept} |->
                    EncodeValue(fields[at(name)].v, addressable)])

----------------------------------------------------------------------------
(* The Float64 codec *)

\* A MarshalJSON that formats with one digit after the point ('f', 1).
Float64MarshalJSONOnePlace(f) ==
    LET tenths == RoundHalfEven(Magnitude(f), Unit \div 10)
    IN  (IF f.neg THEN <<"-">> ELSE << >>)
        \o NatChars(tenths \div 10) \o <<".", DigitChar(tenths % 10)>>

\* (*Float64).MarshalJSON
Float64MarshalJSON(f) == FormatFloat(f)

\* (*Float64).UnmarshalJSON(data), the target holding old
Float64UnmarshalJSON(data, old) ==
    LET asFloat == JsonUnmarshal(data, "float64", [neg |-> FALSE, m |-> 0, e |-> -FracBits])
        asString == JsonUnmarshal(data, "string", << >>)
    IN  IF asFloat.err = "" THEN [err |-> "", v |-> asFloat.v]
        ELSE IF asString.err # "" THEN [err |-> "failed to unmarshal Float64", v |-> old]
        ELSE IF ~ParseFloat(asString.v).ok
             THEN [err |-> "failed to parse Float64 from string", v |-> old]
             ELSE [err |-> "", v |-> ParseFloat(asString.v).f]

----------------------------------------------------------------------------
(* Values the callers pass to the setters *)

StrVals == {<< >>, <<"a">>}
IntVals == {0, 1}
\* float64 arguments: 0 and 37.5
FloatZero == [neg |-> FALSE, m |-> 0, e |-> -FracBits]
F375 == NearestFloat(FALSE, 375 * (Unit \div 10)).f
FloatArgs == {FloatZero, F375}

----------------------------------------------------------------------------
(* The builders *)

NewServiceUpdateRequest ==
    [type |-> "ServiceUpdateRequest", Name |-> Nil, Description |-> Nil,
     IP |-> Nil, Ignore |-> Nil, Param |-> Nil, Type |-> Nil]

NewLocationUpdateRequest ==
    [type |-> "LocationUpdateRequest", Name |-> Nil, FixedCoordinates |-> Nil,
     Latitude |-> Nil, Longitude |-> Nil]

NewAlertsQuery ==
    [type |-> "AlertsQuery", Order |-> Nil, RuleID |-> Nil, Severity |-> Nil,
     State |-> Nil]

\* ServiceUpdateRequest.payload
ServiceIgnoreValue(ignore) == IF ignore THEN GoInt(1) ELSE GoInt(0)

\* A payload() that leaves out zero values, as `omitempty` would.
ServiceUpdatePayloadOmitEmpty(r) ==
    LET has(f) == r[f].set /\ r[f].v # << >>
        keys == {f \in {"Name", "Description", "IP", "Param", "Type"} : has(f)}
        wire(f) == CASE f = "Name" -> "service_name" [] f = "Description" -> "service_desc"
                     [] f = "IP" -> "service_ip" [] f = "Param" -> "service_param"
                     [] f = "Type" -> "service_type"
        field(w) == CHOOSE f \in keys : wire(f) = w
        strs == [w \in {wire(f) : f \in keys} |-> GoString(r[field(w)].v)]
    IN  IF r.Ignore.set /\ r.Ignore.v THEN Put(strs, "service_ignore", GoInt(1)) ELSE strs

ServiceUpdatePayload(r) ==
    LET p0 == EmptyMap
        p1 == IF r.Name.set THEN Put(p0, "service_name", GoString(r.Name.v)) ELSE p0
        p2 == IF r.Description.set
              THEN Put(p1, "service_desc", GoString(r.Description.v)) ELSE p1
        p3 == IF r.IP.set THEN Put(p2, "service_ip", GoString(r.IP.v)) ELSE p2
        p4 == IF r.Ignore.set
              THEN Put(p3, "service_ignore", ServiceIgnoreValue(r.Ignore.v)) ELSE p3
        p5 == IF r.Param.set THEN Put(p4, "service_param", GoString(r.Param.v)) ELSE p4
        p6 == IF r.Type.set THEN Put(p5, "service_type", GoString(r.Type.v)) ELSE p5
    IN  p6

\* LocationUpdateRequest.payload
LocationFixedValue(fixed) == GoBool(fixed)

LocationUpdatePayload(r) ==
    LET p0 == EmptyMap
        p1 == IF r.Name.set THEN Put(p0, "location", GoString(r.Name.v)) ELSE p0
        p2 == IF r.FixedCoordinates.set
              THEN Put(p1, "fixed_coordinates", LocationFixedValue(r.FixedCoordinates.v))
              ELSE p1
        p3 == IF r.Latitude.set THEN Put(p2, "lat", GoFloat(r.Latitude.v)) ELSE p2
        p4 == IF r.Longitude.set THEN Put(p3, "lng", GoFloat(r.Longitude.v)) ELSE p3
    IN  p4

\* AlertsQuery.values: url.Values.Set(key, value) stores the one-element list.
AlertsQueryValues(q) ==
    LET v0 == EmptyMap
        v1 == IF q.Order.set THEN Put(v0, "order", <<q.Order.v>>) ELSE v0
        v2 == IF q.RuleID.set THEN Put(v1, "alert_rule", <<Itoa(q.RuleID.v)>>) ELSE v1
        v3 == IF q.Severity.set THEN Put(v2, "severity", <<q.Severity.v>>) ELSE v2
        v4 == IF q.State.set THEN Put(v3, "state", <<Itoa(q.State.v)>>) ELSE v3
    IN  v4

----------------------------------------------------------------------------
(* Client.newRequest *)

\* No client has been constructed
NoClient == [isNil |-> TRUE]

NoRequest == [op |-> "none"]
NoCall == [op |-> "none"]
NoCodec == [op |-> "none"]
NoReply == [err |-> "none"]
NoResponse == [op |-> "none"]

\* The key order of url.Values.Encode (sorted by key)
QueryKeyOrder == <<"alert_rule", "order", "severity", "state">>

\* url.Values.Encode: the key=value pairs, sorted by key
QueryEncode(q) ==
    LET keys == SelectSeq(QueryKeyOrder, LAMBDA key : key \in DOMAIN q)
    IN  [i \in 1..Len(keys) |-> <<keys[i], q[keys[i]][1]>>]

\* newRequest(method, uri, body, query): body is the JSON text of the body
\* ("none" when body == nil), hasQuery/rawQuery the query string.
NewRequest(op, method, uri, hasBody, bodyJSON, query) ==
    [op |-> op, method |-> method, uri |-> uri,
     hasBody |-> hasBody,
     body |-> IF hasBody THEN bodyJSON ELSE JNull,
     contentType |-> IF hasBody THEN "application/json" ELSE "",
     accept |-> "application/json",
     rawQuery |-> IF Cardinality(DOMAIN query) > 0 THEN QueryEncode(query) ELSE << >>]

----------------------------------------------------------------------------
(* The builder operations *)

Construct(b) ==
    /\ builder' = b
    /\ sent' = NoRequest
    /\ call' = NoCall
    /\ UNCHANGED <<client, bval, fval, codec, reply, resp>>

\* A setter that keeps the value an attribute was given first
SetFieldOnce(type, field, values) ==
    /\ builder.type = type
    /\ sent = NoRequest
    /\ \E v \in values :
           /\ builder' = IF builder[field].set THEN builder
                         ELSE [builder EXCEPT ![field] = Ptr(v)]
           /\ call' = [op |-> "Set", field |-> field, arg |-> v, returned |-> builder']
    /\ UNCHANGED <<client, sent, bval, fval, codec, reply, resp>>

\* The setters: r.Field = &value; return r.  The caller fills the builder in
\* and then hands it to one operation.  The call records the setter called
\* last, its argument, and the object that the pointer it returned leads to.
SetField(type, field, values) ==
    /\ builder.type = type
    /\ sent = NoRequest
    /\ \E v \in values :
           /\ builder' = [builder EXCEPT ![field] = Ptr(v)]
           /\ call' = [op |-> "Set", field |-> field, arg |-> v, returned |-> builder']
    /\ UNCHANGED <<client, sent, bval, fval, codec, reply, resp>>

ServiceSetName == SetField("ServiceUpdateRequest", "Name", StrVals)
ServiceSetDescription == SetField("ServiceUpdateRequest", "Description", StrVals)
ServiceSetIP == SetField("ServiceUpdateRequest", "IP", StrVals)
ServiceSetIgnore == SetField("ServiceUpdateRequest", "Ignore", BOOLEAN)
ServiceSetParam == SetField("ServiceUpdateRequest", "Param", StrVals)
ServiceSetType == SetField("ServiceUpdateRequest", "Type", StrVals)

LocationSetName == SetField("LocationUpdateRequest", "Name", StrVals)
LocationSetFixedCoordinates == SetField("LocationUpdateRequest", "FixedCoordinates", BOOLEAN)
LocationSetLatitude == SetField("LocationUpdateRequest", "Latitude", FloatArgs)
LocationSetLongitude == SetField("LocationUpdateRequest", "Longitude", FloatArgs)

QuerySetOrder == SetField("AlertsQuery", "Order", StrVals)
QuerySetRuleID == SetField("AlertsQuery", "RuleID", IntVals)
QuerySetSeverity == SetField("AlertsQuery", "Severity", StrVals)
QuerySetState == SetField("AlertsQuery", "State", IntVals)

\* Client.UpdateService(serviceID, service): PATCH services/<id> with service.payload()
UpdateService ==
    /\ builder.type = "ServiceUpdateRequest"
    /\ sent = NoRequest
    /\ sent' = NewRequest("UpdateService", "PATCH", "services/%d", TRUE,
                          EncodeMap(ServiceUpdatePayload(builder)), EmptyMap)
    /\ UNCHANGED <<client, builder, call, bval, fval, codec, reply, resp>>

\* Client.UpdateLocation(locationID, location): PATCH locations/<id> with location.payload()
UpdateLocation ==
    /\ builder.type = "LocationUpdateRequest"
    /\ sent = NoRequest
    /\ sent' = NewRequest("UpdateLocation", "PATCH", "locations/%d", TRUE,
                          EncodeMap(LocationUpdatePayload(builder)), EmptyMap)
    /\ UNCHANGED <<client, builder, call, bval, fval, codec, reply, resp>>

\* Client.GetAlerts(query): GET alerts with query.values()
GetAlerts ==
    /\ builder.type = "AlertsQuery"
    /\ sent = NoRequest
    /\ sent' = NewRequest("GetAlerts", "GET", "alerts", FALSE, JNull,
                          AlertsQueryValues(builder))
    /\ UNCHANGED <<client, builder, call, bval, fval, codec, reply, resp>>

\* The variables a specification does not use stay as they start.
NoBuilder == [type |-> "none"]

BuilderInit ==
    /\ client = NoClient
    /\ builder \in {NewServiceUpdateRequest, NewLocationUpdateRequest, NewAlertsQuery}
    /\ sent = NoRequest
    /\ call = NoCall
    /\ bval = FALSE
    /\ fval = FloatZero
    /\ codec = NoCodec
    /\ reply = NoReply
    /\ resp = NoResponse

BuilderNext ==
    \/ Construct(NewServiceUpdateRequest)
    \/ Construct(NewLocationUpdateRequest)
    \/ Construct(NewAlertsQuery)
    \/ ServiceSetName \/ ServiceSetDescription \/ ServiceSetIP
    \/ ServiceSetIgnore \/ ServiceSetParam \/ ServiceSetType
    \/ LocationSetName \/ LocationSetFixedCoordinates
    \/ LocationSetLatitude \/ LocationSetLongitude
    \/ QuerySetOrder \/ QuerySetRuleID \/ QuerySetSeverity \/ QuerySetState
    \/ UpdateService \/ UpdateLocation \/ GetAlerts

SpecBuilder == BuilderInit /\ [][BuilderNext]_vars

----------------------------------------------------------------------------
(* Partial-update payloads: claims C1 and C2 *)

\* The wire names, from the json/url tags of the API's structs.
WireNames ==
    [ServiceUpdateRequest |->
        [Name |-> "service_name", Description |-> "service_desc", IP |-> "service_ip",
         Ignore |-> "service_ignore", Param |-> "service_param", Type |-> "service_type"],
     LocationUpdateRequest |->
        [Name |-> "location", FixedCoordinates |-> "fixed_coordinates",
         Latitude |-> "lat", Longitude |-> "lng"],
     AlertsQuery |->
        [Order |-> "order", RuleID |-> "alert_rule", Severity |-> "severity",
         State |-> "state"]]

FieldsOf(b) == DOMAIN WireNames[b.type]
SetFields(b) == {f \in FieldsOf(b) : b[f].set}
WireKeys(b) == {WireNames[b.type][f] : f \in SetFields(b)}

\* The mapping an operation put on the wire: the body object, or the query.
SentKeys ==
    IF sent.op = "GetAlerts" THEN {sent.rawQuery[i][1] : i \in 1..Len(sent.rawQuery)}
    ELSE DOMAIN sent.body.m
SentValue(key) ==
    IF sent.op = "GetAlerts"
    THEN sent.rawQuery[CHOOSE i \in 1..Len(sent.rawQuery) : sent.rawQuery[i][1] = key][2]
    ELSE sent.body.m[key]

\* The boolean a wire value stands for, as a number or as a literal.
WireTruth(j) == IF j.t = "bool" THEN j.b ELSE j.text # <<"0">>

\* Whether the wire value j carries the Go value v the caller set.
CarriesValue(field, v, j) ==
    CASE field \in {"Ignore", "FixedCoordinates"} ->
             j.t \in {"bool", "number"} /\ WireTruth(j) = v
      [] field \in {"Latitude", "Longitude"} ->
             j.t = "number" /\ ParseFloat(j.text).ok /\ ParseFloat(j.text).f = v
      [] field \in {"RuleID", "State"} -> j = Itoa(v)
      [] OTHER -> IF sent.op = "GetAlerts" THEN j = v ELSE j = JString(v)

\* C1: after UpdateService, UpdateLocation or GetAlerts the mapping sent holds
\* a key for a field if and only if the field was set, under its wire name,
\* and each set field carries the value it was set to, zero values included;
\* with no field set the mapping is empty.
C1_PayloadHoldsExactlySetFields ==
    sent.op \in {"UpdateService", "UpdateLocation", "GetAlerts"} =>
        /\ SentKeys = WireKeys(builder)
        /\ \A f \in SetFields(builder) :
               CarriesValue(f, builder[f].v, SentValue(WireNames[builder.type][f]))
        /\ (SetFields(builder) = {} => SentKeys = {})

\* Only Ignore = false and Name = "" are set, and the payload holds both.
C1_Witness ==
    /\ sent.op = "UpdateService"
    /\ SetFields(builder) = {"Ignore", "Name"}
    /\ builder.Ignore.v = FALSE /\ builder.Name.v = << >>
    /\ SentKeys = {"service_ignore", "service_name"}

\* How the numerals 1 and 0 stand on the wire
BoolNumeral(b) == JNumber(IF b THEN <<"1">> ELSE <<"0">>)

\* C2: in every partial-update payload a boolean attribute that was set is
\* emitted as the numeral 1 or 0: ServiceUpdateRequest.Ignore under
\* service_ignore and LocationUpdateRequest.FixedCoordinates under
\* fixed_coordinates.
C2_BooleansSentAsNumerals ==
    /\ (sent.op = "UpdateService" /\ builder.Ignore.set) =>
           /\ "service_ignore" \in SentKeys
           /\ SentValue("service_ignore") = BoolNumeral(builder.Ignore.v)
    /\ (sent.op = "UpdateLocation" /\ builder.FixedCoordinates.set) =>
           /\ "fixed_coordinates" \in SentKeys
           /\ SentValue("fixed_coordinates") = BoolNumeral(builder.FixedCoordinates.v)


----------------------------------------------------------------------------
(* The bytes of a JSON text, as the codec methods receive them *)

Quote == "\""

\* The JSON value a byte sequence spells (the scalars, and the empty object
\* and array), or JInvalid.
Scan(bytes) ==
    IF bytes = <<"n", "u", "l", "l">> THEN JNull
    ELSE IF bytes = <<"t", "r", "u", "e">> THEN JBool(TRUE)
    ELSE IF bytes = <<"f", "a", "l", "s", "e">> THEN JBool(FALSE)
    ELSE IF bytes = <<"{", "}">> THEN JObject(EmptyMap)
    ELSE IF bytes = <<"[", "]">> THEN JArray(<< >>)
    ELSE IF /\ Len(bytes) >= 2 /\ bytes[1] = Quote /\ bytes[Len(bytes)] = Quote
            /\ \A i \in 2..(Len(bytes) - 1) : bytes[i] \notin {Quote, "\\"}
         THEN JString(SubSeq(bytes, 2, Len(bytes) - 1))
    ELSE IF IsJSONNumber(bytes) THEN JNumber(bytes)
    ELSE JInvalid

Quoted(text) == <<Quote>> \o text \o <<Quote>>

\* The bytes of the scalar JSON values the encoder writes.
Bytes(j) ==
    CASE j.t = "null" -> <<"n", "u", "l", "l">>
      [] j.t = "bool" -> IF j.b THEN <<"t", "r", "u", "e">> ELSE <<"f", "a", "l", "s", "e">>
      [] j.t = "number" -> j.text
      [] j.t = "string" -> Quoted(j.s)

----------------------------------------------------------------------------
(* Bool: the codec methods, and the places the client encodes a Bool *)

\* JSON integers -MaxSmallInt..MaxSmallInt are among the inputs.
MaxSmallInt == 12

SmallIntTexts == {Itoa(n) : n \in (-MaxSmallInt)..MaxSmallInt}

\* 9223372036854775809 and 18446744073709551616
Int64Beyond == <<"9", "2", "2", "3", "3", "7", "2", "0", "3", "6", "8", "5", "4", "7", "7", "5", "8", "0", "9">>
TwoTo64 == <<"1", "8", "4", "4", "6", "7", "4", "4", "0", "7", "3", "7", "0", "9", "5", "5", "1", "6", "1", "6">>

\* Integers at and beyond the ends of int64
WideIntTexts ==
    {MaxInt64, MinInt64, <<"-">> \o MaxInt64, <<"-">> \o MinInt64,
     Int64Beyond, <<"-">> \o Int64Beyond, TwoTo64, <<"-">> \o TwoTo64}

FractionTexts ==
    {<<"1", ".", "5">>, <<"1", ".", "0">>, <<"0", ".", "0">>, <<"-", "0", ".", "5">>,
     <<"1", "e", "2">>, <<"1", "E", "0">>, <<"0", ".", "1", "e", "1">>}

StringTexts ==
    {Quoted(<< >>), Quoted(<<"1">>), Quoted(<<"0">>), Quoted(<<"t", "r", "u", "e">>),
     Quoted(<<"y", "e", "s">>)}

OtherTexts ==
    {<<"n", "u", "l", "l">>, <<"{", "}">>, <<"[", "]">>}

\* Bytes that are no JSON text
InvalidTexts ==
    {<< >>, <<"-", "0">> \o <<"1">>, <<"0", "1">>, <<"t", "r", "u">>, <<"+", "1">>}

LiteralTexts == {<<"t", "r", "u", "e">>, <<"f", "a", "l", "s", "e">>}

BoolInputs ==
    LiteralTexts \cup SmallIntTexts \cup {<<"-", "0">>} \cup WideIntTexts
        \cup FractionTexts \cup StringTexts \cup OtherTexts \cup InvalidTexts

\* b.UnmarshalJSON(data), for a Bool b holding old
BoolUnmarshal ==
    \E data \in BoolInputs, old \in BOOLEAN :
        LET r == BoolUnmarshalJSON(Scan(data), old)
        IN  /\ bval' = r.v
            /\ codec' = [op |-> "Bool.UnmarshalJSON", data |-> data, prev |-> old,
                         err |-> r.err, out |-> << >>]
            /\ UNCHANGED <<client, builder, call, sent, fval, reply, resp>>

\* b.MarshalJSON()
BoolMarshal ==
    /\ codec' = [op |-> "Bool.MarshalJSON", data |-> << >>, prev |-> bval,
                 err |-> "", out |-> BoolMarshalJSON(bval)]
    /\ UNCHANGED <<client, builder, call, sent, bval, fval, reply, resp>>

\* json.Marshal(b): the Bool passed by value
JsonMarshalBoolValue ==
    /\ codec' = [op |-> "json.Marshal(Bool)", data |-> << >>, prev |-> bval,
                 err |-> "", out |-> Bytes(EncodeValue(GoBoolT(bval), FALSE))]
    /\ UNCHANGED <<client, builder, call, sent, bval, fval, reply, resp>>

\* json.Marshal(&b)
JsonMarshalBoolPointer ==
    /\ codec' = [op |-> "json.Marshal(*Bool)", data |-> << >>, prev |-> bval,
                 err |-> "", out |-> Bytes(EncodeValue(GoBoolT(bval), TRUE))]
    /\ UNCHANGED <<client, builder, call, sent, bval, fval, reply, resp>>

\* Decoding what MarshalJSON wrote last into another Bool, which holds old.
BoolUnmarshalEncoded ==
    /\ codec.op = "Bool.MarshalJSON"
    /\ \E old \in BOOLEAN :
        LET r == BoolUnmarshalJSON(Scan(codec.out), old)
        IN  /\ bval' = r.v
            /\ codec' = [op |-> "Bool round trip", data |-> codec.out, prev |-> old,
                         err |-> r.err, out |-> << >>, encoded |-> codec.prev]
    /\ UNCHANGED <<client, builder, call, sent, fval, reply, resp>>

Field(name, v, omitempty) == [name |-> name, v |-> v, omitempty |-> omitempty]

\* The fields of a LocationCreateRequest, in declaration order
LocationCreateFields(r) ==
    <<Field("location", GoString(r.Name), FALSE),
      Field("fixed_coordinates", GoBoolT(r.FixedCoordinates), FALSE),
      Field("lat", GoFloat(r.Latitude), FALSE),
      Field("lng", GoFloat(r.Longitude), FALSE)>>

\* The fields of a ServiceCreateRequest
ServiceCreateFields(r) ==
    <<Field("name", GoString(r.Name), TRUE),
      Field("desc", GoString(r.Description), TRUE),
      Field("ip", GoString(r.IP), TRUE),
      Field("ignore", GoBoolT(r.Ignore), TRUE),
      Field("param", GoString(r.Param), TRUE),
      Field("type", GoString(r.Type), FALSE)>>

\* The fields of an AlertRuleCreateRequest
AlertRuleCreateFields(r) ==
    <<Field("builder", GoString(r.Builder), FALSE),
      Field("count", GoInt(r.Count), TRUE),
      Field("delay", GoString(r.Delay), TRUE),
      Field("devices", r.Devices, FALSE),
      Field("disabled", GoBoolT(r.Disabled), TRUE),
      Field("groups", r.Groups, FALSE),
      Field("interval", GoString(r.Interval), TRUE),
      Field("locations", r.Locations, FALSE),
      Field("mute", GoBool(r.Mute), TRUE),
      Field("name", GoString(r.Name), FALSE),
      Field("notes", GoString(r.Notes), TRUE),
      Field("proc", GoString(r.ProcedureURL), TRUE),
      Field("query", GoString(r.Query), TRUE),
      Field("rule", GoString(r.Rule), TRUE),
      Field("severity", GoString(r.Severity), FALSE)>>

\* Client.CreateLocation(location), the caller's Bool as FixedCoordinates
CreateLocation ==
    \E name \in StrVals :
        LET location == [Name |-> name, FixedCoordinates |-> bval,
                         Latitude |-> F375, Longitude |-> FloatZero]
        IN  /\ call' = [op |-> "CreateLocation", arg |-> location]
            /\ sent' = NewRequest("CreateLocation", "POST", "locations", TRUE,
                                  EncodeStruct(LocationCreateFields(location), TRUE), EmptyMap)
            /\ UNCHANGED <<client, builder, bval, fval, codec, reply, resp>>

\* Client.CreateService(deviceIdentifier, service), the caller's Bool as Ignore
CreateService ==
    \E name \in StrVals :
        LET service == [Name |-> name, Description |-> << >>, IP |-> << >>,
                        Ignore |-> bval, Param |-> << >>, Type |-> <<"a">>]
        IN  /\ call' = [op |-> "CreateService", arg |-> service]
            /\ sent' = NewRequest("CreateService", "POST", "services/%s", TRUE,
                                  EncodeStruct(ServiceCreateFields(service), TRUE), EmptyMap)
            /\ UNCHANGED <<client, builder, bval, fval, codec, reply, resp>>

\* Client.CreateAlertRule(payload), the caller's Bool as Disabled: an empty
\* Devices becomes [-1] before the request is built.
CreateAlertRule ==
    \E devices \in {GoNilInts, GoInts(<< >>), GoInts(<<1>>)} :
        LET given == [Builder |-> << >>, Count |-> 0, Delay |-> << >>,
                      Devices |-> devices, Disabled |-> bval, Groups |-> GoNilInts,
                      Interval |-> << >>, Locations |-> GoNilInts, Mute |-> FALSE,
                      Name |-> <<"a">>, Notes |-> << >>, ProcedureURL |-> << >>,
                      Query |-> << >>, Rule |-> << >>, Severity |-> <<"o", "k">>]
            payload == IF Len(given.Devices.a) = 0
                       THEN [given EXCEPT !.Devices = GoInts(<<-1>>)] ELSE given
        IN  /\ call' = [op |-> "CreateAlertRule", arg |-> given]
            /\ sent' = NewRequest("CreateAlertRule", "POST", "rules", TRUE,
                                  EncodeStruct(AlertRuleCreateFields(payload), TRUE), EmptyMap)
            /\ UNCHANGED <<client, builder, bval, fval, codec, reply, resp>>

BoolInit ==
    /\ client = NoClient
    /\ builder = NoBuilder
    /\ call = NoCall
    /\ sent = NoRequest
    /\ bval \in BOOLEAN
    /\ fval = FloatZero
    /\ codec = NoCodec
    /\ reply = NoReply
    /\ resp = NoResponse

BoolNext ==
    \/ BoolUnmarshal
    \/ BoolMarshal
    \/ JsonMarshalBoolValue
    \/ JsonMarshalBoolPointer
    \/ BoolUnmarshalEncoded
    \/ CreateLocation
    \/ CreateService
    \/ CreateAlertRule

SpecBool == BoolInit /\ [][BoolNext]_vars


----------------------------------------------------------------------------
(* The Bool codec: claims C4 to C7 *)

IsIntegerText(text) ==
    IsJSONNumber(text) /\ ~NumberParts(text).hasDot /\ ~NumberParts(text).hasExp

\* Whether an integer text has a digit other than 0, that is, spells n # 0.
SpellsNonZero(text) == \E i \in 1..Len(text) : text[i] \in Digits \ {"0"}

InsideInt64 == {MaxInt64, <<"-">> \o MaxInt64, <<"-">> \o MinInt64}
OutsideInt64 == WideIntTexts \ InsideInt64

\* C4, as the source has it: Bool.UnmarshalJSON decodes true to true and
\* false to false, and every JSON integer n that fits a 64-bit int to (n # 0),
\* without an error and whatever the target held before; an integer beyond
\* the 64-bit range is an error and leaves the target as it was.
C4_DecodesLiteralsAndInt64 ==
    codec.op = "Bool.UnmarshalJSON" =>
        /\ codec.data = <<"t", "r", "u", "e">> => codec.err = "" /\ bval = TRUE
        /\ codec.data = <<"f", "a", "l", "s", "e">> => codec.err = "" /\ bval = FALSE
        /\ \A n \in (-MaxSmallInt)..MaxSmallInt :
               codec.data = Itoa(n) => codec.err = "" /\ bval = (n # 0)
        /\ codec.data = <<"-", "0">> => codec.err = "" /\ bval = FALSE
        /\ codec.data \in InsideInt64 => codec.err = "" /\ bval = TRUE
        /\ codec.data \in OutsideInt64 => codec.err # "" /\ bval = codec.prev

\* A target holding false decodes -7 to true.
C4_Witness ==
    /\ codec.op = "Bool.UnmarshalJSON"
    /\ codec.data = <<"-", "7">>
    /\ codec.prev = FALSE
    /\ codec.err = ""
    /\ bval = TRUE

\* C4, as the specification states it: every JSON integer n decodes to
\* (n # 0), whatever its size.
C4_DecodesEveryInteger ==
    (codec.op = "Bool.UnmarshalJSON" /\ IsIntegerText(codec.data)) =>
        codec.err = "" /\ bval = SpellsNonZero(codec.data)

\* C5: Bool.UnmarshalJSON returns an error and leaves the target unchanged for
\* every JSON value that is neither a boolean nor an integer: a string, a
\* fractional number, null, an object, an array.
C5_RejectsOtherValues ==
    (/\ codec.op = "Bool.UnmarshalJSON"
     /\ \/ Scan(codec.data).t \in {"string", "null", "object", "array"}
        \/ codec.data \in FractionTexts) =>
        codec.err # "" /\ bval = codec.prev

\* C6: a Bool is serialized as the bytes 1 (true) or 0 (false), never as a
\* true/false literal, wherever it is encoded: by MarshalJSON, as a value
\* handed to json.Marshal, and as a field of a LocationCreateRequest, a
\* ServiceCreateRequest or an AlertRuleCreateRequest.
C6_BoolEncodesAsNumeral ==
    /\ codec.op \in {"Bool.MarshalJSON", "json.Marshal(Bool)", "json.Marshal(*Bool)"} =>
           codec.out = (IF codec.prev THEN <<"1">> ELSE <<"0">>)
    /\ sent.op = "CreateLocation" =>
           sent.body.m["fixed_coordinates"] = BoolNumeral(call.arg.FixedCoordinates)
    /\ (sent.op = "CreateService" /\ "ignore" \in DOMAIN sent.body.m) =>
           sent.body.m["ignore"] = BoolNumeral(call.arg.Ignore)
    /\ (sent.op = "CreateAlertRule" /\ "disabled" \in DOMAIN sent.body.m) =>
           sent.body.m["disabled"] = BoolNumeral(call.arg.Disabled)

\* C7: for both booleans b, MarshalJSON's output decodes without an error to b.
C7_BoolRoundTrip ==
    codec.op = "Bool round trip" => codec.err = "" /\ bval = codec.encoded

\* true, encoded as 1, decoded into a target that held false
C7_Witness ==
    /\ codec.op = "Bool round trip"
    /\ codec.encoded = TRUE
    /\ codec.data = <<"1">>
    /\ codec.prev = FALSE
    /\ bval = TRUE


----------------------------------------------------------------------------
(* Client.UpdateDeviceGroup *)

DeviceGroupFields == {"Name", "Description", "Devices", "Rules", "Type"}

\* What a caller means to update: each field left alone (Nil) or set (Ptr).
DeviceGroupUpdates ==
    [Name : {Nil} \cup {Ptr(v) : v \in StrVals},
     Description : {Nil} \cup {Ptr(v) : v \in StrVals},
     Devices : {Nil, Ptr(<< >>), Ptr(<<1>>)},
     Rules : {Nil} \cup {Ptr(v) : v \in StrVals},
     Type : {Nil} \cup {Ptr(v) : v \in StrVals}]

\* The DeviceGroupUpdateRequest that caller builds: a field left alone has
\* the zero value of its type.
DeviceGroupUpdateRequest(u) ==
    [Name |-> IF u.Name.set THEN u.Name.v ELSE << >>,
     Description |-> u.Description,
     Devices |-> IF u.Devices.set THEN GoInts(u.Devices.v) ELSE GoNilInts,
     Rules |-> u.Rules,
     Type |-> IF u.Type.set THEN u.Type.v ELSE << >>]

\* The fields of a DeviceGroupUpdateRequest, each tagged omitempty
DeviceGroupUpdateFields(r) ==
    <<Field("name", GoString(r.Name), TRUE),
      Field("desc", GoStringPtr(r.Description), TRUE),
      Field("devices", r.Devices, TRUE),
      Field("rules", GoStringPtr(r.Rules), TRUE),
      Field("type", GoString(r.Type), TRUE)>>

\* Client.UpdateDeviceGroup(identifier, payload): PATCH devicegroups/<identifier>
UpdateDeviceGroup ==
    \E u \in DeviceGroupUpdates :
        LET payload == DeviceGroupUpdateRequest(u)
        IN  /\ call' = [op |-> "UpdateDeviceGroup", arg |-> u]
            /\ sent' = NewRequest("UpdateDeviceGroup", "PATCH", "devicegroups/%s", TRUE,
                                  EncodeStruct(DeviceGroupUpdateFields(payload), TRUE),
                                  EmptyMap)
            /\ UNCHANGED <<client, builder, bval, fval, codec, reply, resp>>

DeviceGroupInit ==
    /\ client = NoClient
    /\ builder = NoBuilder
    /\ call = NoCall
    /\ sent = NoRequest
    /\ bval = FALSE
    /\ fval = FloatZero
    /\ codec = NoCodec
    /\ reply = NoReply
    /\ resp = NoResponse

DeviceGroupNext == UpdateDeviceGroup

SpecDeviceGroup == DeviceGroupInit /\ [][DeviceGroupNext]_vars

DeviceGroupWireNames ==
    [Name |-> "name", Description |-> "desc", Devices |-> "devices",
     Rules |-> "rules", Type |-> "type"]

\* C3: the body UpdateDeviceGroup transmits holds exactly the fields the
\* caller set, a field set to the empty string or to the empty list included
\* with that value, and no field the caller left alone.
C3_DeviceGroupBodyHoldsSetFields ==
    sent.op = "UpdateDeviceGroup" =>
        /\ DOMAIN sent.body.m =
               {DeviceGroupWireNames[f] : f \in {g \in DeviceGroupFields : call.arg[g].set}}
        /\ \A f \in DeviceGroupFields \ {"Devices"} :
               call.arg[f].set =>
                   sent.body.m[DeviceGroupWireNames[f]] = JString(call.arg[f].v)
        /\ call.arg.Devices.set =>
               sent.body.m["devices"] =
                   JArray([i \in 1..Len(call.arg.Devices.v) |->
                              JNumber(Itoa(call.arg.Devices.v[i]))])


----------------------------------------------------------------------------
(* Float64: the codec methods.  The texts are decimal; ParseFloat's           *)
(* hexadecimal form is not among the inputs.                                 *)

\* What MarshalJSON writes for the finite floats
EncodedFloatTexts == {FormatFloat(f) : f \in Floats}

NumberTexts ==
    {<<"3", "7", ".", "5">>,
     <<"3", "7", ".", "5", "0">>,
     <<"1", "e", "2">>,
     <<"1", "E", "+", "1">>,
     <<"2", "5", "e", "-", "1">>,
     <<"0", ".", "1">>,
     <<"0", ".", "0", "3", "1", "2", "5">>,
     <<"0", ".", "0", "3">>,
     <<"-", "0">>,
     <<"-", "0", ".", "5">>,
     <<"1", "e", "9">>,
     <<"1", "0", "0", "0", "0", "0">>}

\* Contents of JSON strings that are no JSON number
PlainStringTexts ==
    {<<>>,
     <<"a", "b", "c">>,
     <<"+", "1">>,
     <<".", "5">>,
     <<"5", ".">>,
     <<" ", "1">>,
     <<"I", "n", "f">>,
     <<"-", "i", "n", "f">>,
     <<"N", "a", "N">>,
     <<"1", "e">>,
     <<"t", "r", "u", "e">>}

FloatInputs ==
    EncodedFloatTexts \cup NumberTexts
        \cup {Quoted(t) : t \in EncodedFloatTexts \cup NumberTexts \cup PlainStringTexts}
        \cup OtherTexts \cup LiteralTexts \cup InvalidTexts

\* f.UnmarshalJSON(data), for the input at hand and a Float64 f holding fval
Float64Unmarshal ==
    /\ codec.op = "input"
    /\ LET r == Float64UnmarshalJSON(Scan(codec.data), fval)
       IN  /\ fval' = r.v
           /\ codec' = [op |-> "Float64.UnmarshalJSON", data |-> codec.data, prev |-> fval,
                        err |-> r.err, out |-> << >>]
    /\ UNCHANGED <<client, builder, call, sent, bval, reply, resp>>

\* f.MarshalJSON()
Float64Marshal ==
    /\ codec.op = "none"
    /\ codec' = [op |-> "Float64.MarshalJSON", data |-> << >>, prev |-> fval,
                 err |-> "", out |-> Float64MarshalJSON(fval)]
    /\ UNCHANGED <<client, builder, call, sent, bval, fval, reply, resp>>

\* Decoding what MarshalJSON wrote last into another Float64, which holds old.
Float64UnmarshalEncoded ==
    /\ codec.op = "Float64.MarshalJSON"
    /\ \E old \in FloatArgs :
        LET r == Float64UnmarshalJSON(Scan(codec.out), old)
        IN  /\ fval' = r.v
            /\ codec' = [op |-> "Float64 round trip", data |-> codec.out, prev |-> old,
                         err |-> r.err, out |-> << >>, encoded |-> codec.prev]
    /\ UNCHANGED <<client, builder, call, sent, bval, reply, resp>>

\* Either a finite float to encode, or an input to decode into a target that
\* holds 0 or 37.5.
FloatInit ==
    /\ client = NoClient
    /\ builder = NoBuilder
    /\ call = NoCall
    /\ sent = NoRequest
    /\ bval = FALSE
    /\ reply = NoReply
    /\ resp = NoResponse
    /\ \/ fval \in Floats /\ codec = NoCodec
       \/ fval \in FloatArgs /\ codec \in {[op |-> "input", data |-> d] : d \in FloatInputs}

FloatNext ==
    \/ Float64Unmarshal
    \/ Float64Marshal
    \/ Float64UnmarshalEncoded

SpecFloat == FloatInit /\ [][FloatNext]_vars

----------------------------------------------------------------------------
(* The Float64 codec: claims C8 and C9 *)

\* What Float64.UnmarshalJSON left: its error and the target's value
Decoded(err, v) == IF err = "" THEN [ok |-> TRUE, v |-> v] ELSE [ok |-> FALSE]

\* C8: Float64.UnmarshalJSON gives a JSON string holding a number's text the
\* value it gives that JSON number (37.5 and "37.5" both give 37.5), and
\* returns an error for every input that is neither a JSON number nor a JSON
\* string that parses as a float.
C8_NumberOrNumericStringOnly ==
    codec.op = "Float64.UnmarshalJSON" =>
        LET j == Scan(codec.data)
        IN  /\ (j.t = "string" /\ IsJSONNumber(j.s)) =>
                   LET n == Float64UnmarshalJSON(JNumber(j.s), codec.prev)
                   IN  Decoded(codec.err, fval) = Decoded(n.err, n.v)
            /\ codec.data \in {<<"3", "7", ".", "5">>, Quoted(<<"3", "7", ".", "5">>)} =>
                   codec.err = "" /\ fval = F375
            /\ (/\ j.t # "number"
                /\ ~(j.t = "string" /\ ParseFloat(j.s).ok)) => codec.err # ""

\* No exponent, and no digit that could be left off
PlainDecimal(text) ==
    /\ IsJSONNumber(text)
    /\ ~NumberParts(text).hasExp
    /\ NumberParts(text).hasDot => text[Len(text)] # "0"

\* C9: for every finite float x, MarshalJSON writes a plain decimal, without
\* an exponent and without trailing zeros after the point, and UnmarshalJSON
\* decodes it without an error to exactly x.
C9_FloatRoundTrip ==
    /\ codec.op = "Float64.MarshalJSON" => PlainDecimal(codec.out)
    /\ codec.op = "Float64 round trip" =>
           /\ codec.err = ""
           /\ FloatEq(fval, codec.encoded)
           /\ Magnitude(fval) # 0 => fval = codec.encoded

\* 37.5, written as 37.5, decoded into a target that held 0
C9_Witness ==
    /\ codec.op = "Float64 round trip"
    /\ codec.encoded = F375
    /\ codec.data = <<"3", "7", ".", "5">>
    /\ codec.prev = FloatZero
    /\ fval = F375


----------------------------------------------------------------------------
(* Services: the nested list the API answers with *)

MaxOuter == 2
MaxInner == 2
MaxCount == 2

\* A Service, by its ID
Services == {[ID |-> 1], [ID |-> 2]}

SeqsUpTo(S, n) == UNION {[1..k -> S] : k \in 0..n}

\* The serviceResponse documents the API may answer with
ServiceReplies ==
    [Status : {<<"o", "k">>, <<"e", "r", "r", "o", "r">>},
     Message : {<< >>, <<"m">>},
     Count : 0..MaxCount,
     Services : SeqsUpTo(SeqsUpTo(Services, MaxInner), MaxOuter)]

\* new(serviceResponse)
ZeroServiceResponse == [Status |-> << >>, Message |-> << >>, Count |-> 0, Services |-> << >>]

\* c.do(req, respObj): the error, and what respObj holds afterwards; a reply
\* is the error the exchange ended with ("" for none) and the document decoded.
Do(answer, respObj) ==
    IF answer.err # "" THEN [err |-> answer.err, obj |-> respObj]
    ELSE [err |-> "", obj |-> answer.body]

\* A getServices that takes everything to be in the first list.
getServicesFirstList(s) == IF s.Services = << >> THEN << >> ELSE s.Services[1]

\* serviceResponse.getServices
RECURSIVE AppendLists(_, _)
AppendLists(flatServices, lists) ==
    IF lists = << >> THEN flatServices
    ELSE AppendLists(flatServices \o Head(lists), Tail(lists))

getServices(s) == AppendLists(<< >>, s.Services)

\* What GetServices and GetServicesForHost return: nil and the error, or the
\* ServiceResponse built around the flat list.
ServicesResult(op, d) ==
    IF d.err # "" THEN [op |-> op, err |-> d.err, isNil |-> TRUE]
    ELSE LET services == getServices(d.obj)
         IN  [op |-> op, err |-> "", isNil |-> FALSE,
              Status |-> d.obj.Status, Message |-> d.obj.Message,
              Count |-> Len(services), Services |-> services]

ServiceAnswers ==
    {[err |-> "", body |-> b] : b \in ServiceReplies}
        \cup {[err |-> e] : e \in {"transport", "status", "decode"}}

\* Client.GetServices()
GetServices ==
    /\ resp = NoResponse
    /\ call' = [op |-> "GetServices"]
    /\ sent' = NewRequest("GetServices", "GET", "services", FALSE, JNull, EmptyMap)
    /\ resp' = ServicesResult("GetServices", Do(reply, ZeroServiceResponse))
    /\ UNCHANGED <<client, builder, bval, fval, codec, reply>>

\* Client.GetServicesForHost(deviceIdentifier)
GetServicesForHost ==
    /\ resp = NoResponse
    /\ call' = [op |-> "GetServicesForHost"]
    /\ sent' = NewRequest("GetServicesForHost", "GET", "services/%s", FALSE, JNull, EmptyMap)
    /\ resp' = ServicesResult("GetServicesForHost", Do(reply, ZeroServiceResponse))
    /\ UNCHANGED <<client, builder, bval, fval, codec, reply>>

ServicesInit ==
    /\ client = NoClient
    /\ builder = NoBuilder
    /\ call = NoCall
    /\ sent = NoRequest
    /\ bval = FALSE
    /\ fval = FloatZero
    /\ codec = NoCodec
    /\ reply \in ServiceAnswers
    /\ resp = NoResponse

ServicesNext == GetServices \/ GetServicesForHost

SpecServices == ServicesInit /\ [][ServicesNext]_vars

----------------------------------------------------------------------------
(* Flattening: claim C10 *)

\* The number of items in the lists before list i
RECURSIVE ItemsBefore(_, _)
ItemsBefore(lists, i) ==
    IF i = 1 THEN 0 ELSE ItemsBefore(lists, i - 1) + Len(lists[i - 1])

\* C10: GetServices and GetServicesForHost return the inner lists of the
\* API's nested list one after the other in their order, Count the length of
\* that flat list whatever count the API reported, and the API's Status and
\* Message.
C10_ServicesFlattened ==
    (resp.op \in {"GetServices", "GetServicesForHost"} /\ resp.err = "") =>
        LET lists == reply.body.Services
        IN  /\ ~resp.isNil
            /\ Len(resp.Services) = ItemsBefore(lists, Len(lists) + 1)
            /\ \A i \in 1..Len(lists) : \A j \in 1..Len(lists[i]) :
                   resp.Services[ItemsBefore(lists, i) + j] = lists[i][j]
            /\ resp.Count = Len(resp.Services)
            /\ resp.Status = reply.body.Status
            /\ resp.Message = reply.body.Message

\* Three services in two lists, the API reporting a count of 1
C10_Witness ==
    /\ resp.op = "GetServicesForHost"
    /\ resp.err = ""
    /\ reply.body.Services = <<<<[ID |-> 2]>>, <<[ID |-> 1], [ID |-> 2]>>>>
    /\ reply.body.Count = 1
    /\ resp.Count = 3
    /\ resp.Services = <<[ID |-> 2], [ID |-> 1], [ID |-> 2]>>


----------------------------------------------------------------------------
(* Lookups: GetDeviceGroup and GetService *)

MaxGroups == 2

\* A DeviceGroup, by its ID and Name; a name may spell a number.
DeviceGroups == {[ID |-> i, Name |-> n] : i \in {1, 2}, n \in {<<"a">>, <<"2">>}}

\* The DeviceGroupResponse documents the API may answer with
GroupReplies ==
    [Status : {<<"o", "k">>, <<"e", "r", "r", "o", "r">>},
     Message : {<< >>, <<"m">>},
     Count : 0..MaxCount,
     Groups : SeqsUpTo(DeviceGroups, MaxGroups)]

\* new(DeviceGroupResponse)
ZeroDeviceGroupResponse == [Status |-> << >>, Message |-> << >>, Count |-> 0, Groups |-> << >>]

GroupAnswers ==
    {[err |-> "", body |-> b] : b \in GroupReplies}
        \cup {[err |-> e] : e \in {"transport", "status", "decode"}}

\* group.Name == identifier || strconv.Itoa(group.ID) == identifier
GroupMatches(group, identifier) == group.Name = identifier \/ Itoa(group.ID) = identifier

\* A loop that keeps the last match instead of stopping at the first.
RECURSIVE MatchingGroupLast(_, _)
MatchingGroupLast(groups, identifier) ==
    IF groups = << >> THEN << >>
    ELSE IF GroupMatches(groups[Len(groups)], identifier) THEN <<groups[Len(groups)]>>
    ELSE MatchingGroupLast(SubSeq(groups, 1, Len(groups) - 1), identifier)

\* The loop of GetDeviceGroup: the first match is appended, then break.
RECURSIVE MatchingGroup(_, _)
MatchingGroup(groups, identifier) ==
    IF groups = << >> THEN << >>
    ELSE IF GroupMatches(Head(groups), identifier) THEN <<Head(groups)>>
    ELSE MatchingGroup(Tail(groups), identifier)

\* The loop of GetService: service.ID == serviceID
RECURSIVE MatchingService(_, _)
MatchingService(services, serviceID) ==
    IF services = << >> THEN << >>
    ELSE IF Head(services).ID = serviceID THEN <<Head(services)>>
    ELSE MatchingService(Tail(services), serviceID)

\* What GetDeviceGroup returns: the target and the error when do() failed, the
\* API's own response when it lists no group, and else a new response around
\* the match, Count set to 1 when one was appended.
DeviceGroupResult(identifier, d) ==
    IF d.err # "" \/ Len(d.obj.Groups) = 0
    THEN [op |-> "GetDeviceGroup", err |-> d.err, isNil |-> FALSE,
          Status |-> d.obj.Status, Message |-> d.obj.Message,
          Count |-> d.obj.Count, Groups |-> d.obj.Groups]
    ELSE LET found == MatchingGroup(d.obj.Groups, identifier)
         IN  [op |-> "GetDeviceGroup", err |-> "", isNil |-> FALSE,
              Status |-> d.obj.Status, Message |-> d.obj.Message,
              Count |-> IF found = << >> THEN 0 ELSE 1, Groups |-> found]

\* What GetService returns: nil and the error, the API's envelope around the
\* empty flat list, or a new response around the match.
ServiceResult(serviceID, d) ==
    IF d.err # "" THEN [op |-> "GetService", err |-> d.err, isNil |-> TRUE]
    ELSE LET services == getServices(d.obj)
             found == MatchingService(services, serviceID)
         IN  IF Len(services) = 0
             THEN [op |-> "GetService", err |-> "", isNil |-> FALSE,
                   Status |-> d.obj.Status, Message |-> d.obj.Message,
                   Count |-> d.obj.Count, Services |-> services]
             ELSE [op |-> "GetService", err |-> "", isNil |-> FALSE,
                   Status |-> d.obj.Status, Message |-> d.obj.Message,
                   Count |-> IF found = << >> THEN 0 ELSE 1, Services |-> found]

\* Client.GetDeviceGroup(identifier)
GetDeviceGroup ==
    /\ resp = NoResponse
    /\ IF reply.err # "" THEN TRUE ELSE "Groups" \in DOMAIN reply.body
    /\ \E identifier \in {<<"1">>, <<"2">>, <<"a">>, <<"z">>} :
        /\ call' = [op |-> "GetDeviceGroup", arg |-> identifier]
        /\ resp' = DeviceGroupResult(identifier, Do(reply, ZeroDeviceGroupResponse))
    /\ sent' = NewRequest("GetDeviceGroup", "GET", "devicegroups", FALSE, JNull, EmptyMap)
    /\ UNCHANGED <<client, builder, bval, fval, codec, reply>>

\* Client.GetService(serviceID)
GetService ==
    /\ resp = NoResponse
    /\ IF reply.err # "" THEN TRUE ELSE "Services" \in DOMAIN reply.body
    /\ \E serviceID \in {1, 2, 3} :
        /\ call' = [op |-> "GetService", arg |-> serviceID]
        /\ resp' = ServiceResult(serviceID, Do(reply, ZeroServiceResponse))
    /\ sent' = NewRequest("GetService", "GET", "services", FALSE, JNull, EmptyMap)
    /\ UNCHANGED <<client, builder, bval, fval, codec, reply>>

LookupInit ==
    /\ client = NoClient
    /\ builder = NoBuilder
    /\ call = NoCall
    /\ sent = NoRequest
    /\ bval = FALSE
    /\ fval = FloatZero
    /\ codec = NoCodec
    /\ reply \in GroupAnswers \cup ServiceAnswers
    /\ resp = NoResponse

LookupNext == GetDeviceGroup \/ GetService

SpecLookup == LookupInit /\ [][LookupNext]_vars


----------------------------------------------------------------------------
(* Lookups: claims C11 to C13 *)

\* The places of the API's group list that the identifier names
GroupHits(groups, identifier) ==
    {i \in 1..Len(groups) :
        groups[i].Name = identifier \/ Itoa(groups[i].ID) = identifier}

\* The places <<i, j>> of the API's nested service list that hold the ID, and
\* the place of each in the flat order
ServiceHits(lists, serviceID) ==
    {p \in UNION {{<<i, j>> : j \in 1..Len(lists[i])} : i \in 1..Len(lists)} :
        lists[p[1]][p[2]].ID = serviceID}
FlatPlace(lists, p) == ItemsBefore(lists, p[1]) + p[2]

\* C11: a successful GetDeviceGroup returns at most one group, the first of
\* the API's list whose Name or decimal ID equals the identifier, in an
\* envelope with the API's Status and Message; a successful GetService returns
\* at most one service, the first of the flat list whose ID equals the ID
\* asked for.
C11_LookupReturnsFirstMatch ==
    /\ (resp.op = "GetDeviceGroup" /\ resp.err = "") =>
           LET groups == reply.body.Groups
               hits == GroupHits(groups, call.arg)
           IN  /\ Len(resp.Groups) <= 1
               /\ (Len(resp.Groups) = 1) = (hits # {})
               /\ hits # {} => resp.Groups[1] = groups[Min(hits)]
               /\ resp.Status = reply.body.Status
               /\ resp.Message = reply.body.Message
    /\ (resp.op = "GetService" /\ resp.err = "") =>
           LET lists == reply.body.Services
               hits == ServiceHits(lists, call.arg)
           IN  /\ Len(resp.Services) <= 1
               /\ (Len(resp.Services) = 1) = (hits # {})
               /\ \A p \in hits :
                      (\A q \in hits : FlatPlace(lists, p) <= FlatPlace(lists, q)) =>
                          resp.Services[1] = lists[p[1]][p[2]]
               /\ resp.Status = reply.body.Status
               /\ resp.Message = reply.body.Message

\* "2" asked for, the group named "2" standing before the group with ID 2
C11_Witness ==
    /\ resp.op = "GetDeviceGroup"
    /\ resp.err = ""
    /\ call.arg = <<"2">>
    /\ reply.body.Groups = <<[ID |-> 1, Name |-> <<"2">>], [ID |-> 2, Name |-> <<"a">>]>>
    /\ resp.Groups = <<[ID |-> 1, Name |-> <<"2">>]>>

\* C12: after every successful GetDeviceGroup or GetService, Count is 1 if a
\* matching item was returned and 0 if none was, so Count is the length of the
\* collection returned, whatever collection and count the API answered with.
C12_CountIsLengthOfResult ==
    /\ (resp.op = "GetDeviceGroup" /\ resp.err = "") => resp.Count = Len(resp.Groups)
    /\ (resp.op = "GetService" /\ resp.err = "") => resp.Count = Len(resp.Services)

UniqueIDs(groups) ==
    \A i, j \in 1..Len(groups) : groups[i].ID = groups[j].ID => i = j

\* C13: for every list of device groups with unique IDs, GetDeviceGroup with
\* the decimal string of a group's ID returns exactly that group and count 1,
\* and with an identifier that is no group's ID string and no group's name it
\* returns an empty collection, count 0 and no error.
C13_LookupByIDFindsThatGroup ==
    (/\ resp.op = "GetDeviceGroup"
     /\ IF reply.err = "" THEN UniqueIDs(reply.body.Groups) ELSE FALSE) =>
        LET groups == reply.body.Groups
        IN  /\ resp.err = ""
            /\ \A i \in 1..Len(groups) :
                   call.arg = Itoa(groups[i].ID) =>
                       resp.Groups = <<groups[i]>> /\ resp.Count = 1
            /\ GroupHits(groups, call.arg) = {} =>
                   resp.Groups = << >> /\ resp.Count = 0

----------------------------------------------------------------------------
(* Response bodies, and encoding/json reading them *)

\* A key the object does not have
Absent == [t |-> "absent"]

\* The members an answer's object may have, in the order they are written
KeyOrder == <<"status", "message", "count">>
KeyChars ==
    [status |-> <<"s", "t", "a", "t", "u", "s">>,
     message |-> <<"m", "e", "s", "s", "a", "g", "e">>,
     count |-> <<"c", "o", "u", "n", "t">>]

Objects ==
    {JObject(m) : m \in
        [status : {Absent, JString(<<"o", "k">>), JString(<<"e", "r", "r", "o", "r">>),
                   JNumber(<<"5">>)},
         message : {Absent, JNull, JString(<<"n", "o", "t", " ", "f", "o", "u", "n", "d">>),
                    JNumber(<<"7">>)},
         count : {Absent, JNumber(<<"1">>), JString(<<"m", "a", "n", "y">>)}]}

\* A body is the first JSON document of the stream and the bytes after it.
\* The document is a value, or none (the stream holds no value), or bytes
\* that are no JSON, or a value the stream ends in the middle of.
NoDocument == [t |-> "none"]
Truncated == [t |-> "truncated"]
Bodies ==
    [doc : Objects \cup {JNull, JString(<<"o", "o", "p", "s">>), JArray(<< >>)},
     rest : {<< >>, <<" ">>, <<"x">>}]
        \cup [doc : {NoDocument}, rest : {<< >>, <<" ">>}]
        \cup [doc : {JInvalid, Truncated}, rest : {<< >>}]
EmptyBody == [doc |-> NoDocument, rest |-> << >>]

RECURSIVE MembersText(_, _, _)
MembersText(m, keys, first) ==
    IF keys = << >> THEN << >>
    ELSE IF m[Head(keys)].t = "absent" THEN MembersText(m, Tail(keys), first)
    ELSE (IF first THEN << >> ELSE <<",">>)
             \o Quoted(KeyChars[Head(keys)]) \o <<":">> \o Bytes(m[Head(keys)])
             \o MembersText(m, Tail(keys), FALSE)

\* The bytes of a body: string(body)
Text(body) ==
    (CASE body.doc.t = "none" -> << >>
       [] body.doc.t = "invalid" -> <<"<", "h", "t", "m", "l", ">">>
       [] body.doc.t = "truncated" -> <<"{">> \o Quoted(KeyChars.status) \o <<":">>
       [] body.doc.t = "array" -> <<"[", "]">>
       [] body.doc.t = "object" -> <<"{">> \o MembersText(body.doc.m, KeyOrder, TRUE) \o <<"}">>
       [] OTHER -> Bytes(body.doc))
        \o body.rest

\* The json tags of the targets: [key, field, kind]
BaseResponseFields ==
    <<[key |-> "status", field |-> "Status", kind |-> "string"],
      [key |-> "message", field |-> "Message", kind |-> "string"],
      [key |-> "count", field |-> "Count", kind |-> "int"]>>
ErrorResponseFields ==
    <<[key |-> "message", field |-> "Message", kind |-> "string"],
      [key |-> "status", field |-> "Status", kind |-> "string"]>>

\* new(T) for a response type: its embedded BaseResponse
ZeroBaseResponse == [Status |-> << >>, Message |-> << >>, Count |-> IntZero]

\* The decoder storing a valid JSON value in a struct: null stores nothing, a
\* value that is no object is a type error; of an object every member with a
\* tagged field is stored, a member of the wrong type is skipped and the
\* error is reported after the other members have been stored.
UnmarshalValue(doc, target, fields) ==
    IF doc.t = "null" THEN [err |-> "", v |-> target]
    ELSE IF doc.t # "object" THEN [err |-> "type", v |-> target]
    ELSE LET tagged == {fields[i].field : i \in 1..Len(fields)}
             of(f) == fields[CHOOSE i \in 1..Len(fields) : fields[i].field = f]
             present(f) == IF f \in tagged THEN doc.m[of(f).key].t # "absent" ELSE FALSE
             dec(f) == JsonUnmarshal(doc.m[of(f).key], of(f).kind, target[f])
         IN  [err |-> IF \E f \in DOMAIN target : IF present(f) THEN dec(f).err # "" ELSE FALSE
                      THEN "type" ELSE "",
              v |-> [f \in DOMAIN target |-> IF present(f) THEN dec(f).v ELSE target[f]]]

\* json.NewDecoder(body).Decode(v): the first value of the stream is read and
\* stored, and the bytes after it are left unread; a stream without a value
\* is io.EOF.
DecoderDecode(body, target, fields) ==
    IF body.doc.t = "none" THEN [err |-> "EOF", v |-> target]
    ELSE IF body.doc.t = "invalid" THEN [err |-> "syntax", v |-> target]
    ELSE IF body.doc.t = "truncated" THEN [err |-> "unexpected EOF", v |-> target]
    ELSE UnmarshalValue(body.doc, target, fields)

\* json.Unmarshal(body, v): the whole text has to be one JSON value, white
\* space around it allowed, before anything is stored.
UnmarshalBytes(body, target, fields) ==
    IF \/ body.doc.t \in {"none", "invalid", "truncated"}
       \/ \E i \in 1..Len(body.rest) : body.rest[i] # " "
    THEN [err |-> "syntax", v |-> target]
    ELSE UnmarshalValue(body.doc, target, fields)

----------------------------------------------------------------------------
(* One call of an operation: newRequest, rawDo, checkResponse, do.  The    *)
(* call keeps where it stands (pc), how often it called the transport      *)
(* (sends), the caller's response target, the error it is about to return, *)
(* whether the response body was closed, and the stages it went through.   *)

\* The status codes and status lines servers answer with
StatusCodes == {199, 200, 299, 300, 404, 500}
StatusLine(code) ==
    Itoa(code) \o <<" ">> \o
        (CASE code = 200 -> <<"O", "K">>
           [] code = 300 -> <<"M", "u", "l", "t", "i", "p", "l", "e", " ", "C", "h", "o", "i", "c", "e", "s">>
           [] code = 404 -> <<"N", "o", "t", " ", "F", "o", "u", "n", "d">>
           [] code = 500 -> <<"I", "n", "t", "e", "r", "n", "a", "l", " ", "S", "e", "r", "v", "e", "r", " ", "E", "r", "r", "o", "r">>
           [] OTHER -> << >>)

\* What c.client.Do(req) comes to: an error, a response, or no answer at all
\* (the server accepts the connection and never writes a response).
TransportOutcomes ==
    {[kind |-> "error", cause |-> c] :
        c \in {"connection refused", "no such host", "i/o timeout"}}
    \cup {[kind |-> "silent"]}
    \cup {[kind |-> "response", StatusCode |-> code, Status |-> StatusLine(code),
           body |-> b, readErr |-> FALSE] : code \in StatusCodes, b \in Bodies}
    \cup {[kind |-> "response", StatusCode |-> code, Status |-> StatusLine(code),
           body |-> EmptyBody, readErr |-> TRUE] : code \in StatusCodes}

\* A nil error
NoError == [kind |-> "nil"]

\* fullURL.String() of the request: of the URL that newRequest resolved, or
\* of the URI under the root http://h/api/v0/
URLString(req) ==
    IF "URL" \in DOMAIN req
    THEN req.URL.Scheme \o <<":", "/", "/">> \o req.URL.Host \o req.URL.Path
             \o (IF req.URL.RawQuery # << >> THEN <<"?">> \o req.URL.RawQuery ELSE << >>)
    ELSE <<"h", "t", "t", "p", ":", "/", "/", "h", "/", "a", "p", "i", "/", "v", "0", "/">> \o
             (CASE req.uri = "devicegroups" -> <<"d", "e", "v", "i", "c", "e", "g", "r", "o", "u", "p", "s">>
                [] req.uri = "rules" -> <<"r", "u", "l", "e", "s">>
                [] OTHER -> << >>)

\* resp.StatusCode < 200 || resp.StatusCode >= 300, with 300 taken for a success
IsStatusErrorAbove300(code) == code < 200 \/ code > 300

\* resp.StatusCode < 200 || resp.StatusCode >= 300
IsStatusError(code) == code < 200 \/ code >= 300

\* The Message checkResponse leaves in the ErrorResponse whatever json.Unmarshal said
ErrorMessageFromEnvelope(body, u) == u.v.Message

\* The Message checkResponse leaves in the ErrorResponse: what json.Unmarshal
\* stored, or string(body) when it reported an error
ErrorMessage(body, u) == IF u.err # "" THEN Text(body) ELSE u.v.Message

\* checkResponse(resp), resp answering the request req
checkResponse(r, req) ==
    IF ~IsStatusError(r.StatusCode) THEN NoError
    ELSE LET errorResponse ==
                 [kind |-> "ErrorResponse",
                  Response |-> [StatusCode |-> r.StatusCode, Status |-> r.Status,
                                Request |-> [URL |-> URLString(req)]],
                  Message |-> << >>, Status |-> << >>]
             u == UnmarshalBytes(r.body, [Message |-> << >>, Status |-> << >>],
                                 ErrorResponseFields)
         IN  IF r.readErr
             THEN [errorResponse EXCEPT !.Message = <<"f", "a", "i", "l", "e", "d", " ", "t", "o", " ", "r", "e", "a", "d", " ", "r", "e", "s", "p", "o", "n", "s", "e", " ", "b", "o", "d", "y", ":", " ", "u", "n", "e", "x", "p", "e", "c", "t", "e", "d", " ", "E", "O", "F">>]
             ELSE IF Len(Text(r.body)) > 0
             THEN [errorResponse EXCEPT !.Message = ErrorMessage(r.body, u),
                                        !.Status = u.v.Status]
             ELSE errorResponse

\* ErrorResponse.Error()
ErrorText(e) ==
    e.Response.Status \o <<" ">> \o e.Response.Request.URL
        \o (IF e.Message # << >> THEN <<":", " ">> \o e.Message ELSE << >>)

\* A rawDo that sends the request again after a transport error
rawDoRetrying(c, outcome) ==
    IF outcome.kind = "error"
    THEN IF c.sends < 2 THEN [c EXCEPT !.pc = "Send"]
         ELSE [c EXCEPT !.err = [kind |-> "transport", cause |-> outcome.cause],
                        !.pc = "Return"]
    ELSE [c EXCEPT !.pc = "CheckStatus"]

\* rawDo after c.client.Do(req) returned: the transport's error is returned
\* as it is, and do returns it; a response goes to checkResponse.
rawDo(c, outcome) ==
    IF outcome.kind = "error"
    THEN [c EXCEPT !.err = [kind |-> "transport", cause |-> outcome.cause],
                   !.pc = "Return"]
    ELSE [c EXCEPT !.pc = "CheckStatus"]

\* A do that reports io.EOF as it reports every other decoding error
DecodeErrorWithEOF(decErr) ==
    IF decErr # ""
    THEN [kind |-> "decode", text |-> <<"f", "a", "i", "l", "u", "r", "e", " ", "d", "e", "c", "o", "d", "i", "n", "g", " ", "r", "e", "s", "p", "o", "n", "s", "e">>, cause |-> decErr]
    ELSE NoError

\* The error do returns for what Decode reported: io.EOF is no error, and any
\* other error is wrapped
DecodeError(decErr) ==
    IF decErr \notin {"", "EOF"}
    THEN [kind |-> "decode", text |-> <<"f", "a", "i", "l", "u", "r", "e", " ", "d", "e", "c", "o", "d", "i", "n", "g", " ", "r", "e", "s", "p", "o", "n", "s", "e">>, cause |-> decErr]
    ELSE NoError

\* GetDeviceGroups: c.newRequest(http.MethodGet, deviceGroupEndpoint, nil, nil)
\* and resp := new(DeviceGroupResponse)
Build ==
    /\ call.pc = "Build"
    /\ sent' = NewRequest("GetDeviceGroups", "GET", "devicegroups", FALSE, JNull, EmptyMap)
    /\ call' = [call EXCEPT !.pc = "Send", !.target = ZeroBaseResponse,
                             !.stages = Append(@, "Build")]
    /\ UNCHANGED <<client, builder, bval, fval, codec, reply, resp>>

\* rawDo calls c.client.Do(req), and waits for it to return
Send ==
    /\ call.pc = "Send"
    /\ call' = [call EXCEPT !.sends = @ + 1, !.pc = "InTransport",
                             !.stages = Append(@, "Send")]
    /\ UNCHANGED <<client, builder, sent, bval, fval, codec, reply, resp>>

\* c.client.Do(req) returns
TransportReturns ==
    /\ call.pc = "InTransport"
    /\ reply.kind # "silent"
    /\ call' = rawDo(call, reply)
    /\ UNCHANGED <<client, builder, sent, bval, fval, codec, reply, resp>>

\* A do that decodes the body whatever checkResponse said
CheckStatusThenDecode ==
    /\ call.pc = "CheckStatus"
    /\ call' = [call EXCEPT !.err = checkResponse(reply, sent), !.pc = "Decode",
                             !.stages = Append(@, "CheckStatus")]
    /\ UNCHANGED <<client, builder, sent, bval, fval, codec, reply, resp>>

\* rawDo: return resp, checkResponse(resp); do returns the error.
\* checkResponse closes the body when it could not read it.
CheckStatus ==
    /\ call.pc = "CheckStatus"
    /\ LET err == checkResponse(reply, sent)
       IN  call' = IF err # NoError
                   THEN [call EXCEPT !.err = err, !.pc = "Return",
                                     !.bodyClosed = reply.readErr,
                                     !.stages = Append(@, "CheckStatus")]
                   ELSE [call EXCEPT !.pc = "Decode", !.stages = Append(@, "CheckStatus")]
    /\ UNCHANGED <<client, builder, sent, bval, fval, codec, reply, resp>>

\* do: json.NewDecoder(resp.Body).Decode(v); a body that cannot be read is
\* the decoder's error.  The deferred closeBody runs as do returns.
Decode ==
    /\ call.pc = "Decode"
    /\ LET d == IF reply.readErr THEN [err |-> "read", v |-> call.target]
                ELSE DecoderDecode(reply.body, call.target, BaseResponseFields)
       IN  call' = [call EXCEPT !.target = d.v, !.err = DecodeError(d.err), !.pc = "Return",
                                !.bodyClosed = TRUE, !.stages = Append(@, "Decode")]
    /\ UNCHANGED <<client, builder, sent, bval, fval, codec, reply, resp>>

\* return resp, c.do(req, resp)
Return ==
    /\ call.pc = "Return"
    /\ resp' = [op |-> call.op, err |-> call.err, target |-> call.target]
    /\ call' = [call EXCEPT !.pc = "done", !.stages = Append(@, "Return")]
    /\ UNCHANGED <<client, builder, sent, bval, fval, codec, reply>>

DoInit ==
    /\ client = NoClient
    /\ builder = NoBuilder
    /\ call = [op |-> "GetDeviceGroups", pc |-> "Build", sends |-> 0,
               target |-> ZeroBaseResponse, err |-> NoError,
               bodyClosed |-> FALSE, stages |-> << >>]
    /\ sent = NoRequest
    /\ bval = FALSE
    /\ fval = FloatZero
    /\ codec = NoCodec
    /\ reply \in TransportOutcomes
    /\ resp = NoResponse

DoNext == Build \/ Send \/ TransportReturns \/ CheckStatus \/ Decode \/ Return

SpecDo == DoInit /\ [][DoNext]_vars

\* The steps of the call are taken when they can be; the transport returns
\* when it has an error or a response to return.
SpecDoFair == SpecDo /\ WF_vars(DoNext)

----------------------------------------------------------------------------
(* One call: claims C14 to C20 *)

\* The call has returned, and the transport had answered it with a response
Answered == resp.op = "GetDeviceGroups" /\ reply.kind = "response"

\* C14: for every response whose status code lies outside [200,300), 199 and
\* 300 included, the call returns an *ErrorResponse carrying that response's
\* status and the request's URL, whatever the body holds; for every status
\* code inside [200,300) the error returned is no *ErrorResponse.
C14_StatusErrorOutside2xx ==
    Answered =>
        IF reply.StatusCode < 200 \/ reply.StatusCode > 299
        THEN /\ resp.err.kind = "ErrorResponse"
             /\ resp.err.Response.StatusCode = reply.StatusCode
             /\ resp.err.Response.Status = reply.Status
             /\ resp.err.Response.Request.URL = <<"h", "t", "t", "p", ":", "/", "/", "h", "/", "a", "p", "i", "/", "v", "0", "/", "d", "e", "v", "i", "c", "e", "g", "r", "o", "u", "p", "s">>
        ELSE resp.err.kind # "ErrorResponse"

\* Status 300 and a body that reads like a success
C14_Witness ==
    /\ Answered
    /\ reply.StatusCode = 300
    /\ reply.body = [doc |-> JObject([status |-> JString(<<"o", "k">>), message |-> Absent,
                                      count |-> JNumber(<<"1">>)]),
                     rest |-> << >>]
    /\ resp.err.kind = "ErrorResponse"
    /\ resp.err.Response.StatusCode = 300

\* The whole body is one JSON value
IsJSONText(body) ==
    /\ body.doc.t \in {"null", "string", "array", "object"}
    /\ \A i \in 1..Len(body.rest) : body.rest[i] = " "

\* The members named are strings, null or absent
StringMembers(doc, keys) ==
    IF doc.t = "object" THEN \A key \in keys : doc.m[key].t \in {"absent", "null", "string"}
    ELSE doc.t = "null"

\* The body is an error envelope, and the message it holds
IsEnvelope(body) == IsJSONText(body) /\ StringMembers(body.doc, {"status", "message"})
EnvelopeMessage(body) ==
    IF body.doc.t # "object" THEN << >>
    ELSE IF body.doc.m.message.t = "string" THEN body.doc.m.message.s
    ELSE << >>

\* C15: for a response outside [200,300) whose body was read, Message is the
\* envelope's message when the body parses as the error envelope, the body's
\* text as it is when the body is not empty and does not parse as the
\* envelope, and empty when the body is empty; with an empty Message the
\* error text is the status line, a space and the URL.
C15_MessageChosenByBody ==
    (/\ Answered
     /\ reply.StatusCode < 200 \/ reply.StatusCode > 299
     /\ ~reply.readErr) =>
        /\ IsEnvelope(reply.body) => resp.err.Message = EnvelopeMessage(reply.body)
        /\ (Text(reply.body) # << >> /\ ~IsEnvelope(reply.body)) =>
               resp.err.Message = Text(reply.body)
        /\ Text(reply.body) = << >> =>
               /\ resp.err.Message = << >>
               /\ ErrorText(resp.err) = reply.Status \o <<" ">> \o <<"h", "t", "t", "p", ":", "/", "/", "h", "/", "a", "p", "i", "/", "v", "0", "/", "d", "e", "v", "i", "c", "e", "g", "r", "o", "u", "p", "s">>

\* 404 with {"status":"error","message":"not found"}
C15_Witness ==
    /\ Answered
    /\ reply.StatusCode = 404
    /\ Text(reply.body) = <<"{", "\"", "s", "t", "a", "t", "u", "s", "\"", ":", "\"", "e", "r", "r", "o", "r", "\"", ",", "\"", "m", "e", "s", "s", "a", "g", "e", "\"", ":", "\"", "n", "o", "t", " ", "f", "o", "u", "n", "d", "\"", "}">>
    /\ resp.err.Message = <<"n", "o", "t", " ", "f", "o", "u", "n", "d">>
    /\ resp.err.Status = <<"e", "r", "r", "o", "r">>
    /\ ErrorText(resp.err) = <<"4", "0", "4", " ", "N", "o", "t", " ", "F", "o", "u", "n", "d", " ", "h", "t", "t", "p", ":", "/", "/", "h", "/", "a", "p", "i", "/", "v", "0", "/", "d", "e", "v", "i", "c", "e", "g", "r", "o", "u", "p", "s", ":", " ", "n", "o", "t", " ", "f", "o", "u", "n", "d">>

\* C16: a call that returns an error leaves the response target in its zero
\* state: no field of it has been stored.
C16_ErrorLeavesTargetZero ==
    (resp.op = "GetDeviceGroups" /\ resp.err # NoError) => resp.target = ZeroBaseResponse

\* C17: for a response inside [200,300) with an empty body the call returns
\* no error and the target is as it was before the call.
C17_EmptyBodyIsSuccess ==
    (/\ Answered
     /\ reply.StatusCode \in 200..299
     /\ ~reply.readErr
     /\ Text(reply.body) = << >>) =>
        resp.err = NoError /\ resp.target = ZeroBaseResponse

C17_Witness ==
    /\ Answered
    /\ reply.StatusCode = 200
    /\ reply.body = EmptyBody
    /\ ~reply.readErr
    /\ resp.err = NoError

\* C18: for a response inside [200,300) whose body is not empty and is not
\* valid JSON, or does not fit the target, the call returns the decoding
\* error ("failure decoding response"), and never a nil error.
C18_BadBodyIsDecodeError ==
    (/\ Answered
     /\ reply.StatusCode \in 200..299
     /\ ~reply.readErr
     /\ Text(reply.body) # << >>
     /\ ~(/\ IsJSONText(reply.body)
          /\ StringMembers(reply.body.doc, {"status", "message"})
          /\ IF reply.body.doc.t = "object"
             THEN reply.body.doc.m.count.t \in {"absent", "null", "number"}
             ELSE TRUE)) =>
        /\ resp.err.kind = "decode"
        /\ resp.err.text = <<"f", "a", "i", "l", "u", "r", "e", " ", "d", "e", "c", "o", "d", "i", "n", "g", " ", "r", "e", "s", "p", "o", "n", "s", "e">>

\* C19: an operation calls the transport at most once, whatever the outcome.
C19_TransportCalledAtMostOnce ==
    call.op = "GetDeviceGroups" => call.sends <= 1

\* The transport failed, and the call returned after its one send
C19_Witness ==
    /\ resp.op = "GetDeviceGroups"
    /\ resp.err.kind = "transport"
    /\ call.sends = 1

\* C20: every call returns in the end, and a call whose transport failed
\* returns the transport's error.
C20_EveryCallReturns ==
    /\ <>(resp.op = "GetDeviceGroups")
    /\ []((resp.op = "GetDeviceGroups" /\ reply.kind = "error") =>
              resp.err = [kind |-> "transport", cause |-> reply.cause])

----------------------------------------------------------------------------
(* net/url, as New and newRequest use it.  A URL is the record of its parts *)
(* [Scheme, Opaque, Host, Path, RawQuery, Fragment].  The texts parsed are  *)
(* written in lower-case letters, digits and : / ? # . and a lone %, so     *)
(* that no part holds a valid escape.                                       *)

Letters ==
    {"a", "b", "c", "d", "e", "f", "g", "h", "i", "j", "k", "l", "m", "n", "o", "p", "q",
     "r", "s", "t", "u", "v", "w", "x", "y", "z"}

HasPrefix(s, prefix) == Len(s) >= Len(prefix) /\ SubSeq(s, 1, Len(prefix)) = prefix
HasSuffix(s, suffix) ==
    Len(s) >= Len(suffix) /\ SubSeq(s, Len(s) - Len(suffix) + 1, Len(s)) = suffix

\* strings.Cut(s, sep) for a one-character sep
Cut(s, sep) ==
    LET i == Index(s, {sep})
    IN  [before |-> SubSeq(s, 1, i - 1), after |-> SubSeq(s, i + 1, Len(s)),
         found |-> i <= Len(s)]

\* strings.LastIndex(s, sep) for a one-character sep, 0 when there is none
LastIndex(s, sep) ==
    IF \E i \in 1..Len(s) : s[i] = sep
    THEN CHOOSE i \in 1..Len(s) : s[i] = sep /\ \A j \in (i + 1)..Len(s) : s[j] # sep
    ELSE 0

ZeroURL ==
    [Scheme |-> << >>, Opaque |-> << >>, Host |-> << >>, Path |-> << >>,
     RawQuery |-> << >>, Fragment |-> << >>]

\* getScheme: letters, then letters, digits, + - . up to a colon
getScheme(raw) ==
    LET i == Min({k \in 1..Len(raw) : raw[k] \notin Letters \cup Digits \cup {"+", "-", "."}}
                     \cup {Len(raw) + 1})
        none == [err |-> "", scheme |-> << >>, rest |-> raw]
    IN  IF raw = << >> THEN none
        ELSE IF raw[1] = ":" THEN [err |-> "missing protocol scheme", scheme |-> << >>, rest |-> raw]
        ELSE IF raw[1] \notin Letters THEN none
        ELSE IF i <= Len(raw)
        THEN IF raw[i] = ":"
             THEN [err |-> "", scheme |-> SubSeq(raw, 1, i - 1),
                   rest |-> SubSeq(raw, i + 1, Len(raw))]
             ELSE none
        ELSE none

\* parseHost: what follows the last colon of the host has to be a port
validHost(host) ==
    LET i == LastIndex(host, ":")
    IN  IF i = 0 THEN TRUE ELSE AllDigits(SubSeq(host, i + 1, Len(host)))

failed(text) == [err |-> text, u |-> ZeroURL]

\* A % of the path that no two hexadecimal digits follow (unescape)
invalidEscape(path) ==
    \E i \in 1..Len(path) :
        /\ path[i] = "%"
        /\ IF i + 2 <= Len(path)
           THEN {path[i + 1], path[i + 2]} \cap (Letters \cup {":", "/", "."}) # {}
           ELSE TRUE

\* parse, after the scheme and the query were cut off: the opaque form, the
\* authority and the path
parseAuthorityAndPath(scheme, query, fragment) ==
    LET rest == query.before
        authority == /\ scheme # << >> \/ ~HasPrefix(rest, <<"/", "/", "/">>)
                     /\ HasPrefix(rest, <<"/", "/">>)
        hostpath == Cut(SubSeq(rest, 3, Len(rest)), "/")
        host == IF authority THEN hostpath.before ELSE << >>
        path == IF ~authority THEN rest
                ELSE IF hostpath.found THEN <<"/">> \o hostpath.after
                ELSE << >>
    IN  IF ~HasPrefix(rest, <<"/">>) /\ scheme # << >>
        THEN [err |-> "",
              u |-> [ZeroURL EXCEPT !.Scheme = scheme, !.Opaque = rest,
                                    !.RawQuery = query.after, !.Fragment = fragment]]
        ELSE IF /\ ~HasPrefix(rest, <<"/">>)
                /\ \E i \in 1..Len(Cut(rest, "/").before) : rest[i] = ":"
        THEN failed("first path segment in URL cannot contain colon")
        ELSE IF ~validHost(host) THEN failed("invalid port after host")
        ELSE IF invalidEscape(path) THEN failed("invalid URL escape")
        ELSE [err |-> "",
              u |-> [Scheme |-> scheme, Opaque |-> << >>, Host |-> host, Path |-> path,
                     RawQuery |-> query.after, Fragment |-> fragment]]

\* parse(rawURL, viaRequest = false), the fragment being cut off already
parse(rawURL, fragment) ==
    LET s == getScheme(rawURL)
    IN  IF s.err # "" THEN failed(s.err)
        ELSE parseAuthorityAndPath(s.scheme, Cut(s.rest, "?"), fragment)

\* url.Parse(rawURL)
URLParse(rawURL) ==
    LET frag == Cut(rawURL, "#")
    IN  parse(frag.before, frag.after)

\* The path elements between the slashes
RECURSIVE Split(_)
Split(s) ==
    LET c == Cut(s, "/")
    IN  IF c.found THEN <<c.before>> \o Split(c.after) ELSE <<s>>

\* The elements left when . is dropped and .. takes back the element before it
RECURSIVE RemoveDots(_, _)
RemoveDots(elems, dst) ==
    IF elems = << >> THEN dst
    ELSE IF Head(elems) = <<".">> THEN RemoveDots(Tail(elems), dst)
    ELSE IF Head(elems) = <<".", ".">>
    THEN RemoveDots(Tail(elems), SubSeq(dst, 1, Len(dst) - 1))
    ELSE RemoveDots(Tail(elems), Append(dst, Head(elems)))

RECURSIVE Join(_)
Join(elems) ==
    IF elems = << >> THEN << >>
    ELSE IF Len(elems) = 1 THEN Head(elems)
    ELSE Head(elems) \o <<"/">> \o Join(Tail(elems))

\* resolvePath(base, ref): the reference is put after the last slash of the
\* base, and the dot elements are resolved
resolvePath(base, ref) ==
    LET full == IF ref = << >> THEN base
                ELSE IF ref[1] # "/" THEN SubSeq(base, 1, LastIndex(base, "/")) \o ref
                ELSE ref
        elems == Split(IF HasPrefix(full, <<"/">>) THEN Tail(full) ELSE full)
        last == elems[Len(elems)]
        dir == IF last \in {<<".">>, <<".", ".">>} THEN <<<< >>>> ELSE << >>
    IN  IF full = << >> THEN << >>
        ELSE <<"/">> \o Join(RemoveDots(elems, << >>) \o dir)

\* u.ResolveReference(ref) of a reference r that url.Parse gave
ResolveReference(u, r) ==
    IF r.err # "" THEN r
    ELSE IF r.u.Scheme # << >> \/ r.u.Host # << >>
    THEN [err |-> "",
          u |-> [r.u EXCEPT !.Scheme = IF r.u.Scheme = << >> THEN u.Scheme ELSE @,
                            !.Path = resolvePath(r.u.Path, << >>)]]
    ELSE IF r.u.Opaque # << >>
    THEN [err |-> "", u |-> [r.u EXCEPT !.Scheme = u.Scheme]]
    ELSE [err |-> "",
          u |-> [r.u EXCEPT !.Scheme = u.Scheme, !.Host = u.Host,
                            !.Path = resolvePath(u.Path, r.u.Path),
                            !.RawQuery = IF r.u.Path = << >> /\ r.u.RawQuery = << >>
                                         THEN u.RawQuery ELSE @]]

\* u.Parse(ref): url.Parse(ref), then u.ResolveReference
URLResolve(u, ref) == ResolveReference(u, URLParse(ref))

----------------------------------------------------------------------------
(* New: the construction of the client *)

\* Base URLs of up to MaxURLLen characters are among the inputs.
MaxURLLen == 4

BaseURLs ==
    SeqsUpTo({"h", ":", "/", "?", "#", "1"}, MaxURLLen)
        \cup {<<"h", "t", "t", "p", ":", "/", "/", "h">>, <<"h", "t", "t", "p", ":", "/", "/", "h", "/">>, <<"h", "t", "t", "p", ":", "/", "/", "h", ":", "1">>, <<"h", "t", "t", "p", ":", "/", "/", "h", ":", "1", "/">>, <<"h", "t", "t", "p", ":", "/", "/", "h", ":", "1", "/", "a", "p", "i">>, <<"h", "t", "t", "p", ":", "/", "/", "h", "/", "a", "p", "i", "/">>, <<"h", "t", "t", "p", ":", "/", "/", "h", "/", "a", "p", "i", "?", "x">>, <<"l", "o", "c", "a", "l", "h", "o", "s", "t", ":", "1", "/">>, <<"h", "t", "t", "p", "s", ":", "/", "/", "h", ".", "h", "/", "v", "0">>, <<"h", "t", "t", "p", ":", "/", "/", "h", "/", "/">>}

\* New, once c.baseURL.Parse("api/" + apiVersion + "/") is done
newClient(api, token) ==
    IF api.err # ""
    THEN [err |-> "failed to parse API version in base URL", c |-> NoClient]
    ELSE [err |-> "",
          c |-> [isNil |-> FALSE, baseURL |-> api.u, token |-> token,
                 client |-> "cleanhttp.DefaultPooledClient", log |-> "slog.TextHandler"]]

\* New, once url.Parse(baseURL) is done
newParsed(parsed, token) ==
    IF parsed.err # "" THEN [err |-> parsed.err, c |-> NoClient]
    ELSE IF parsed.u.Path # <<"/">>
    THEN [err |-> "invalid base URL format, expected: 'http[s]://<host>[:port]/'",
          c |-> NoClient]
    ELSE newClient(URLResolve(parsed.u, <<"a", "p", "i", "/", "v", "0", "/">>), token)

\* New without the trailing slash appended
NewAsGiven(baseURL, token) == newParsed(URLParse(baseURL), token)

\* New(baseURL, token), without options
New(baseURL, token) ==
    newParsed(URLParse(IF HasSuffix(baseURL, <<"/">>) THEN baseURL ELSE baseURL \o <<"/">>),
              token)

\* The caller constructs a client
NewClient ==
    /\ call.op = "New"
    /\ resp = NoResponse
    /\ LET made == New(call.baseURL, call.token)
       IN  /\ client' = made.c
           /\ resp' = [op |-> "New", err |-> made.err]
    /\ UNCHANGED <<builder, call, sent, bval, fval, codec, reply>>

NewInit ==
    /\ client = NoClient
    /\ builder = NoBuilder
    /\ call \in [op : {"New"}, baseURL : BaseURLs, token : {<<"t">>}]
    /\ sent = NoRequest
    /\ bval = FALSE
    /\ fval = FloatZero
    /\ codec = NoCodec
    /\ reply = NoReply
    /\ resp = NoResponse

NewNext == NewClient

SpecNew == NewInit /\ [][NewNext]_vars

----------------------------------------------------------------------------
(* New: claims C22 and C23 *)

\* The text is scheme://host or scheme://host:port, and its parts
SchemeEnd(b) == Index(b, {":"})
HostPort(b) == SubSeq(b, SchemeEnd(b) + 3, Len(b))
IsSchemeHostPort(b) ==
    LET i == SchemeEnd(b)
        j == Index(HostPort(b), {":"})
    IN  /\ i > 1
        /\ i + 2 <= Len(b)
        /\ \A k \in 1..(i - 1) : b[k] \in Letters
        /\ SubSeq(b, i, i + 2) = <<":", "/", "/">>
        /\ j > 1
        /\ \A k \in 1..(j - 1) : HostPort(b)[k] \in Letters \cup Digits \cup {"."}
        /\ \A k \in (j + 1)..Len(HostPort(b)) : HostPort(b)[k] \in Digits

\* The text is scheme://host[:port] followed by a path of at least one
\* segment
HasPathSegment(b) ==
    LET i == SchemeEnd(b)
        k == i + 2 + Index(HostPort(b), {"/"})
        path == SubSeq(b, k, Index(b, {"?", "#"}) - 1)
    IN  /\ k <= Len(b)
        /\ IsSchemeHostPort(SubSeq(b, 1, k - 1))
        /\ Len(path) > 1

\* C22: New accepts scheme://host[:port] with and without a trailing slash
\* and gives both the same API root; it rejects with 'invalid base URL
\* format' every base URL with a path segment after the host; after every
\* successful New the path of the client's base URL is /api/v0/.
C22_BaseURLNormalised ==
    resp.op = "New" =>
        LET b == call.baseURL
            plain == IF HasSuffix(b, <<"/">>) THEN SubSeq(b, 1, Len(b) - 1) ELSE b
        IN  /\ IsSchemeHostPort(plain) =>
                /\ resp.err = ""
                /\ client.baseURL =
                       [ZeroURL EXCEPT !.Scheme = SubSeq(plain, 1, SchemeEnd(plain) - 1),
                                       !.Host = HostPort(plain),
                                       !.Path = <<"/", "a", "p", "i", "/", "v", "0", "/">>]
            /\ HasPathSegment(b) =>
                /\ resp.err = "invalid base URL format, expected: 'http[s]://<host>[:port]/'"
                /\ client.isNil
            /\ resp.err = "" => client.baseURL.Path = <<"/", "a", "p", "i", "/", "v", "0", "/">>

\* http://h:1 was given, without the slash
C22_Witness ==
    /\ resp.op = "New"
    /\ call.baseURL = <<"h", "t", "t", "p", ":", "/", "/", "h", ":", "1">>
    /\ resp.err = ""
    /\ client.baseURL.Host = <<"h", ":", "1">>
    /\ client.baseURL.Path = <<"/", "a", "p", "i", "/", "v", "0", "/">>

\* C23: for every base URL without a scheme or without a host New returns
\* an error and no client.
C23_RejectsMissingSchemeOrHost ==
    resp.op = "New" =>
        LET b == call.baseURL
            prefix == SubSeq(b, 1, Index(b, {"/", "?", "#"}) - 1)
            hasScheme == /\ prefix # << >>
                         /\ prefix[Len(prefix)] = ":"
                         /\ Len(prefix) > 1
                         /\ \A k \in 1..(Len(prefix) - 1) : prefix[k] \in Letters
            after == SubSeq(b, Len(prefix) + 1, Len(b))
            hasHost == /\ HasPrefix(after, <<"/", "/">>)
                       /\ Len(after) > 2
                       /\ after[3] \in Letters \cup Digits
        IN  ~(hasScheme /\ hasHost) => resp.err # "" /\ client.isNil

----------------------------------------------------------------------------
(* newRequest, and the operations that build their URI from an identifier *)

\* Identifiers of up to MaxIdLen characters are among the inputs.
MaxIdLen == 5

IdentifierArgs ==
    SeqsUpTo({"x", "/", ".", "?"}, MaxIdLen) \cup {<<"x", "#", "x">>, <<"%">>, <<"1", "0">>, <<"h", ".", "x">>, <<"x", ":", "1">>}

\* A value passed as `any`: the nil interface, or a pointer of some type,
\* which is an interface that is not nil even when the pointer is
NilInterface == [typed |-> FALSE]
Interface(p) == [typed |-> TRUE, p |-> p]

\* newRequest, once c.baseURL.Parse(uri) is done: the request with its
\* headers, body and query
newRequestTo(c, method, fullURL, body, query) ==
    IF fullURL.err # "" THEN [err |-> fullURL.err, req |-> NoRequest]
    ELSE [err |-> "",
          req |-> [op |-> "newRequest", method |-> method,
                   URL |-> [fullURL.u EXCEPT
                               !.RawQuery = IF (IF query.set THEN Cardinality(DOMAIN query.v) > 0
                                                ELSE FALSE)
                                            THEN QueryEncode(query.v) ELSE @],
                   Accept |-> "application/json",
                   XAuthToken |-> c.token,
                   ContentType |-> IF body.typed THEN "application/json" ELSE "",
                   hasBody |-> body.typed,
                   body |-> IF ~body.typed THEN JNull
                            ELSE IF body.p.set THEN EncodeStruct(body.p.v, TRUE)
                            ELSE JNull]]

\* newRequest(method, uri, body, query) of client c; body.p points to the
\* list of the payload's fields, query to the url.Values
newRequest(c, method, uri, body, query) ==
    newRequestTo(c, method, URLResolve(c.baseURL, uri), body, query)

\* The operation has built its request, or failed to
Requested(op, payload, query, r) ==
    /\ call' = [op |-> op, payload |-> payload, query |-> query]
    /\ sent' = r.req
    /\ resp' = [op |-> op, err |-> r.err]
    /\ UNCHANGED <<client, builder, bval, fval, codec, reply>>

AlertAckArgs ==
    {Nil,
     Ptr(<<Field("note", GoString(<< >>), TRUE), Field("until_clear", GoBool(TRUE), FALSE)>>),
     Ptr(<<Field("note", GoString(<<"a">>), TRUE), Field("until_clear", GoBool(FALSE), FALSE)>>)}

\* Client.AckAlert(alertID, payload)
AckAlert ==
    /\ sent = NoRequest /\ resp = NoResponse
    /\ \E alertID \in {1, 12}, payload \in AlertAckArgs :
           Requested("AckAlert", payload, Nil,
                     newRequest(client, "PUT", <<"a", "l", "e", "r", "t", "s">> \o <<"/">> \o Itoa(alertID),
                                Interface(payload), Nil))

\* Client.GetAlerts(query)
GetAlertsCall ==
    /\ sent = NoRequest /\ resp = NoResponse
    /\ \E given \in {Nil, Ptr(NewAlertsQuery),
                     Ptr([NewAlertsQuery EXCEPT !.State = Ptr(0)]),
                     Ptr([NewAlertsQuery EXCEPT !.Order = Ptr(<<"a">>), !.RuleID = Ptr(1)])} :
           LET query == IF given.set THEN given.v ELSE NewAlertsQuery
           IN  Requested("GetAlerts", Nil, given,
                         newRequest(client, "GET", <<"a", "l", "e", "r", "t", "s">>, NilInterface,
                                    Ptr(AlertsQueryValues(query))))

\* Client.GetDevice(identifier)
GetDevice ==
    /\ sent = NoRequest /\ resp = NoResponse
    /\ \E identifier \in IdentifierArgs :
           Requested("GetDevice", Nil, Nil,
                     newRequest(client, "GET", <<"d", "e", "v", "i", "c", "e", "s">> \o <<"/">> \o identifier,
                                NilInterface, Nil))

\* Client.DeleteDevice(identifier)
DeleteDevice ==
    /\ sent = NoRequest /\ resp = NoResponse
    /\ \E identifier \in IdentifierArgs :
           Requested("DeleteDevice", Nil, Nil,
                     newRequest(client, "DELETE", <<"d", "e", "v", "i", "c", "e", "s">> \o <<"/">> \o identifier,
                                NilInterface, Nil))

\* Client.UpdateDevice(identifier, payload)
UpdateDevice ==
    /\ sent = NoRequest /\ resp = NoResponse
    /\ \E identifier \in IdentifierArgs,
          payload \in {Nil, Ptr(<<Field("field", GoNilInts, FALSE),
                                  Field("data", GoNilInts, FALSE)>>)} :
           Requested("UpdateDevice", payload, Nil,
                     newRequest(client, "PATCH", <<"d", "e", "v", "i", "c", "e", "s">> \o <<"/">> \o identifier,
                                Interface(payload), Nil))

\* Client.GetDeviceGroupMembers(identifier)
GetDeviceGroupMembers ==
    /\ sent = NoRequest /\ resp = NoResponse
    /\ \E identifier \in IdentifierArgs :
           Requested("GetDeviceGroupMembers", Nil, Nil,
                     newRequest(client, "GET", <<"d", "e", "v", "i", "c", "e", "g", "r", "o", "u", "p", "s">> \o <<"/">> \o identifier,
                                NilInterface, Nil))

\* Client.CreateService(deviceIdentifier, service), for its request
CreateServiceCall ==
    /\ sent = NoRequest /\ resp = NoResponse
    /\ \E deviceIdentifier \in IdentifierArgs,
          service \in {Nil, Ptr(ServiceCreateFields(
                                    [Name |-> <<"a">>, Description |-> << >>, IP |-> << >>,
                                     Ignore |-> FALSE, Param |-> << >>, Type |-> <<"a">>]))} :
           Requested("CreateService", service, Nil,
                     newRequest(client, "POST", <<"s", "e", "r", "v", "i", "c", "e", "s">> \o <<"/">> \o deviceIdentifier,
                                Interface(service), Nil))

\* Client.GetServicesForHost(deviceIdentifier), for its request
GetServicesForHostCall ==
    /\ sent = NoRequest /\ resp = NoResponse
    /\ \E deviceIdentifier \in IdentifierArgs :
           Requested("GetServicesForHost", Nil, Nil,
                     newRequest(client, "GET", <<"s", "e", "r", "v", "i", "c", "e", "s">> \o <<"/">> \o deviceIdentifier,
                                NilInterface, Nil))

RequestInit ==
    /\ client \in {New(<<"h", "t", "t", "p", ":", "/", "/", "h", "/">>, <<"t">>).c, New(<<"h", "t", "t", "p", "s", ":", "/", "/", "h", ":", "1">>, <<"u">>).c}
    /\ builder = NoBuilder
    /\ call = NoCall
    /\ sent = NoRequest
    /\ bval = FALSE
    /\ fval = FloatZero
    /\ codec = NoCodec
    /\ reply = NoReply
    /\ resp = NoResponse

RequestNext ==
    \/ AckAlert \/ GetAlertsCall \/ GetDevice \/ DeleteDevice \/ UpdateDevice
    \/ GetDeviceGroupMembers \/ CreateServiceCall \/ GetServicesForHostCall

SpecRequest == RequestInit /\ [][RequestNext]_vars

----------------------------------------------------------------------------
(* Requests: claims C21 and C30 *)

\* C21: every request built carries Accept: application/json and the
\* client's token as X-Auth-Token; it carries a body and Content-Type:
\* application/json exactly when the caller passed a payload, and a query
\* string exactly when the caller passed query parameters that are not
\* empty.
C21_HeadersBodyAndQuery ==
    sent # NoRequest =>
        LET payload == call.payload.set
            params == IF call.query.set THEN \E f \in {"Order", "RuleID", "Severity", "State"} :
                                                 call.query.v[f].set
                      ELSE FALSE
        IN  /\ sent.Accept = "application/json"
            /\ sent.XAuthToken = client.token
            /\ sent.hasBody = payload
            /\ (sent.ContentType = "application/json") = payload
            /\ (sent.ContentType = "") = ~payload
            /\ (sent.URL.RawQuery # << >>) = params

\* C30: every request of an operation that takes an identifier goes to the
\* scheme and host of the client's base URL and to a path under /api/v0/.
C30_RequestsStayUnderTheRoot ==
    (sent # NoRequest /\ call.op \notin {"AckAlert", "GetAlerts"}) =>
        /\ sent.URL.Scheme = client.baseURL.Scheme
        /\ sent.URL.Host = client.baseURL.Host
        /\ HasPrefix(sent.URL.Path, <<"/", "a", "p", "i", "/", "v", "0", "/">>)

----------------------------------------------------------------------------
(* CreateAlertRule and UpdateAlertRule, as calls: the caller hands a pointer *)
(* to its payload, call.given is the payload as the caller filled it and     *)
(* call.payload the same struct as the call leaves it.  The request goes     *)
(* through Send, TransportReturns, CheckStatus, Decode and Return.           *)

\* The rule IDs and the device lists callers pass
RuleIDs == {-1, 0, 1, 2}
DeviceLists == {GoNilInts, GoInts(<< >>), GoInts(<<1>>), GoInts(<<2, 1>>), GoInts(<<-1>>)}

AlertRulePayloads ==
    {[Builder |-> << >>, Count |-> 0, Delay |-> << >>,
      Devices |-> devices, Disabled |-> FALSE, Groups |-> GoNilInts,
      Interval |-> << >>, Locations |-> GoNilInts, Mute |-> FALSE,
      Name |-> <<"a">>, Notes |-> << >>, ProcedureURL |-> << >>,
      Query |-> << >>, Rule |-> << >>, Severity |-> <<"o", "k">>, ID |-> id] :
        devices \in DeviceLists, id \in RuleIDs}

\* The fields of an AlertRuleUpdateRequest: those of the embedded
\* AlertRuleCreateRequest, and rule_id
AlertRuleUpdateFields(r) ==
    AlertRuleCreateFields(r) \o <<Field("rule_id", GoInt(r.ID), FALSE)>>

\* The payload handed on with the devices the caller gave
DevicesAsGiven(payload) == payload

\* if len(payload.Devices) == 0 { payload.Devices = []int{-1} }
AllDevicesWhenEmpty(payload) ==
    IF Len(payload.Devices.a) = 0 THEN [payload EXCEPT !.Devices = GoInts(<<-1>>)]
    ELSE payload

\* An UpdateAlertRule that does not look at the rule ID
updateAlertRuleUnchecked(payload) ==
    LET p == AllDevicesWhenEmpty(payload)
    IN  [err |-> NoError, payload |-> p,
         req |-> NewRequest("UpdateAlertRule", "PUT", "rules", TRUE,
                            EncodeStruct(AlertRuleUpdateFields(p), TRUE), EmptyMap)]

\* UpdateAlertRule up to its request: the error it returns at once, the
\* payload as it leaves it, and the request it builds
updateAlertRule(payload) ==
    IF payload.ID < 1
    THEN [err |-> [kind |-> "error",
                   text |-> "rule ID is required for updating an alert rule"],
          payload |-> payload, req |-> NoRequest]
    ELSE LET p == AllDevicesWhenEmpty(payload)
         IN  [err |-> NoError, payload |-> p,
              req |-> NewRequest("UpdateAlertRule", "PUT", "rules", TRUE,
                                 EncodeStruct(AlertRuleUpdateFields(p), TRUE), EmptyMap)]

\* Client.UpdateAlertRule(payload): return nil, err at once, or the request
\* and resp := new(BaseResponse)
UpdateAlertRule ==
    /\ call.op = "UpdateAlertRule"
    /\ call.pc = "Call"
    /\ LET r == updateAlertRule(call.payload)
       IN  IF r.err # NoError
           THEN /\ call' = [call EXCEPT !.err = r.err, !.pc = "done",
                                        !.stages = <<"Build", "Return">>]
                /\ resp' = [op |-> call.op, err |-> r.err, target |-> Nil]
                /\ sent' = sent
           ELSE /\ call' = [call EXCEPT !.payload = r.payload, !.pc = "Send",
                                        !.target = ZeroBaseResponse,
                                        !.stages = <<"Build">>]
                /\ sent' = r.req
                /\ resp' = resp
    /\ UNCHANGED <<client, builder, bval, fval, codec, reply>>

\* Client.CreateAlertRule(payload): the request and resp := new(BaseResponse)
CreateAlertRuleCall ==
    /\ call.op = "CreateAlertRule"
    /\ call.pc = "Call"
    /\ LET p == AllDevicesWhenEmpty(call.payload)
       IN  /\ call' = [call EXCEPT !.payload = p, !.pc = "Send", !.target = ZeroBaseResponse,
                                    !.stages = <<"Build">>]
           /\ sent' = NewRequest("CreateAlertRule", "POST", "rules", TRUE,
                                 EncodeStruct(AlertRuleCreateFields(p), TRUE), EmptyMap)
    /\ UNCHANGED <<client, builder, bval, fval, codec, reply, resp>>

AlertRuleInit ==
    /\ client = NoClient
    /\ builder = NoBuilder
    /\ \E op \in {"CreateAlertRule", "UpdateAlertRule"}, given \in AlertRulePayloads :
           call = [op |-> op, pc |-> "Call", sends |-> 0, target |-> ZeroBaseResponse,
                   err |-> NoError, bodyClosed |-> FALSE, stages |-> << >>,
                   given |-> given, payload |-> given]
    /\ sent = NoRequest
    /\ bval = FALSE
    /\ fval = FloatZero
    /\ codec = NoCodec
    /\ reply \in {o \in TransportOutcomes :
                     IF o.kind = "error" THEN o.cause = "connection refused"
                     ELSE IF o.kind = "response"
                     THEN o.StatusCode \in {200, 500} /\ o.body = EmptyBody /\ ~o.readErr
                     ELSE FALSE}
    /\ resp = NoResponse

AlertRuleNext ==
    \/ CreateAlertRuleCall \/ UpdateAlertRule
    \/ Send \/ TransportReturns \/ CheckStatus \/ Decode \/ Return

SpecAlertRule == AlertRuleInit /\ [][AlertRuleNext]_vars

----------------------------------------------------------------------------
(* Alert rules: claims C24 and C29 *)

\* C24: UpdateAlertRule with a rule ID below 1 returns the error 'rule ID is
\* required for updating an alert rule', builds and sends no request and
\* leaves the caller's payload as it was; with a rule ID of 1 or more it
\* has sent exactly one request when it returns, a PUT.
C24_UpdateNeedsRuleID ==
    call.op = "UpdateAlertRule" =>
        IF call.given.ID < 1
        THEN /\ sent = NoRequest
             /\ call.sends = 0
             /\ call.payload = call.given
             /\ call.pc \in {"Call", "done"}
             /\ call.pc = "done" =>
                    /\ resp.op = "UpdateAlertRule"
                    /\ resp.err = [kind |-> "error",
                                   text |-> "rule ID is required for updating an alert rule"]
        ELSE /\ call.sends <= 1
             /\ sent # NoRequest => sent.method = "PUT"
             /\ resp.op = "UpdateAlertRule" =>
                    /\ call.sends = 1
                    /\ sent.method = "PUT"
                    /\ resp.err # [kind |-> "error",
                                   text |-> "rule ID is required for updating an alert rule"]

\* UpdateAlertRule has returned the error for the rule ID 0, and the devices
\* the caller left empty are still empty
C24_Witness ==
    /\ call.op = "UpdateAlertRule"
    /\ call.given.ID = 0
    /\ call.given.Devices = GoNilInts
    /\ call.pc = "done"
    /\ resp.err.kind = "error"
    /\ call.payload.Devices = GoNilInts
    /\ sent = NoRequest

\* The devices member of the body sent
SentDevices == sent.body.m["devices"]

\* C29: the request of CreateAlertRule and of UpdateAlertRule carries
\* devices = [-1] when the caller's Devices is nil or empty, and exactly the
\* caller's list when it is not empty.
C29_DevicesNeverEmpty ==
    (call.op \in {"CreateAlertRule", "UpdateAlertRule"} /\ sent # NoRequest) =>
        /\ SentDevices.t = "array"
        /\ Len(SentDevices.a) > 0
        /\ SentDevices =
               IF Len(call.given.Devices.a) = 0 THEN JArray(<<JNumber(<<"-", "1">>)>>)
               ELSE JArray([i \in 1..Len(call.given.Devices.a) |->
                               JNumber(Itoa(call.given.Devices.a[i]))])

\* UpdateAlertRule was called with an empty list that is not nil, and its
\* request was sent with [-1]
C29_Witness ==
    /\ call.op = "UpdateAlertRule"
    /\ call.given.Devices = GoInts(<< >>)
    /\ call.sends = 1
    /\ SentDevices = JArray(<<JNumber(<<"-", "1">>)>>)

----------------------------------------------------------------------------
(* The setters: claim C26 *)

\* C26: a call of a setter sets the attribute of that setter to the value
\* passed, whether the attribute was set before or not, leaves every other
\* attribute as it was, set or not set, and returns the builder it was
\* called on.
C26_SetterSetsOnlyItsAttribute ==
    [][(call' # call /\ call'.op = "Set") =>
           /\ builder'[call'.field] = Ptr(call'.arg)
           /\ \A f \in DOMAIN builder \ {call'.field} : builder'[f] = builder[f]
           /\ DOMAIN builder' = DOMAIN builder
           /\ call'.returned = builder']_vars

\* SetName("a") was called on a ServiceUpdateRequest whose IP and Ignore had
\* been set, after the name had been set to the empty string
C26_Witness ==
    /\ call.op = "Set"
    /\ call.field = "Name"
    /\ call.arg = <<"a">>
    /\ builder.type = "ServiceUpdateRequest"
    /\ builder.Name = Ptr(<<"a">>)
    /\ builder.IP = Ptr(<< >>)
    /\ builder.Ignore = Ptr(FALSE)
    /\ ~builder.Param.set
    /\ call.returned = builder

----------------------------------------------------------------------------
(* The response body: claim C28 *)

\* C28: when a call returns after the transport gave it a response, the
\* body of that response has been closed, whatever the status and whether
\* or not the body could be decoded.
C28_BodyClosedOnReturn ==
    (resp.op = "GetDeviceGroups" /\ reply.kind = "response") => call.bodyClosed

----------------------------------------------------------------------------
(* GetDevice as a call, with identifiers that newRequest takes and one that *)
(* it refuses                                                               *)

GetDeviceIdentifiers == {<<"x">>, <<"1", "0">>, <<"x", "?", "x">>, <<"%">>}

\* The device path of GetDevice: fmt.Sprintf("%s/%s", deviceEndpoint, identifier)
DeviceURI(identifier) == <<"d", "e", "v", "i", "c", "e", "s">> \o <<"/">> \o identifier

\* The request built, or the error of newRequest
Built(c, r) ==
    IF r.err # ""
    THEN [c EXCEPT !.err = [kind |-> "build", text |-> r.err], !.pc = "Return",
                   !.target = Nil, !.stages = Append(@, "Build")]
    ELSE [c EXCEPT !.pc = "Send", !.target = ZeroBaseResponse,
                   !.stages = Append(@, "Build")]

\* Client.GetDevice(identifier): c.newRequest, return nil, err when it
\* failed, and resp := new(DeviceResponse)
BuildGetDevice ==
    /\ call.op = "GetDevice"
    /\ call.pc = "Build"
    /\ LET r == newRequest(client, "GET", DeviceURI(call.identifier), NilInterface, Nil)
       IN  /\ sent' = r.req
           /\ call' = Built(call, r)
    /\ UNCHANGED <<client, builder, bval, fval, codec, reply, resp>>

GetDeviceInit ==
    /\ client = New(<<"h", "t", "t", "p", ":", "/", "/", "h", "/">>, <<"t">>).c
    /\ builder = NoBuilder
    /\ \E identifier \in GetDeviceIdentifiers :
           call = [op |-> "GetDevice", identifier |-> identifier, pc |-> "Build",
                   sends |-> 0, target |-> ZeroBaseResponse, err |-> NoError,
                   bodyClosed |-> FALSE, stages |-> << >>]
    /\ sent = NoRequest
    /\ bval = FALSE
    /\ fval = FloatZero
    /\ codec = NoCodec
    /\ reply \in TransportOutcomes
    /\ resp = NoResponse

GetDeviceNext ==
    BuildGetDevice \/ Send \/ TransportReturns \/ CheckStatus \/ Decode \/ Return

SpecGetDevice == GetDeviceInit /\ [][GetDeviceNext]_vars

----------------------------------------------------------------------------
(* The stages of a call: claim C27 *)

StageRank == [Build |-> 1, Send |-> 2, CheckStatus |-> 3, Decode |-> 4, Return |-> 5]

\* C27: the stages of a call come in the order Build, Send, CheckStatus,
\* Decode, Return, none of them twice.  A call whose request could not be
\* built returns that error and has sent nothing; a call whose transport
\* failed returns the transport's error without a status check or a decode;
\* a call answered with a status outside [200,300) returns the
\* *ErrorResponse and its target is as new; every other call went through all
\* five stages and returns the decoder's error or none.
C27_StagesInOrder ==
    call.op = "GetDevice" =>
        LET s == call.stages
        IN  /\ \A i \in 1..(Len(s) - 1) : StageRank[s[i]] < StageRank[s[i + 1]]
            /\ sent = NoRequest => call.sends = 0
            /\ call.sends <= 1
            /\ resp.op = "GetDevice" =>
                   IF sent = NoRequest
                   THEN /\ s = <<"Build", "Return">>
                        /\ resp.err.kind = "build"
                   ELSE IF reply.kind = "error"
                   THEN /\ s = <<"Build", "Send", "Return">>
                        /\ resp.err = [kind |-> "transport", cause |-> reply.cause]
                        /\ resp.target = ZeroBaseResponse
                   ELSE IF reply.StatusCode < 200 \/ reply.StatusCode > 299
                   THEN /\ s = <<"Build", "Send", "CheckStatus", "Return">>
                        /\ resp.err.kind = "ErrorResponse"
                        /\ resp.target = ZeroBaseResponse
                   ELSE /\ s = <<"Build", "Send", "CheckStatus", "Decode", "Return">>
                        /\ resp.err.kind \in {"nil", "decode"}

\* GetDevice("%") has returned the error of newRequest, and nothing was sent
C27_Witness ==
    /\ resp.op = "GetDevice"
    /\ call.identifier = <<"%">>
    /\ resp.err = [kind |-> "build", text |-> "invalid URL escape"]
    /\ call.stages = <<"Build", "Return">>
    /\ call.sends = 0
    /\ sent = NoRequest

----------------------------------------------------------------------------
(* Two callers on one client.  Each caller calls GetDevice with an          *)
(* identifier of its own; call, sent, reply and resp hold one value for     *)
(* each caller, and the steps of the two calls interleave in every order.   *)
(* The client is the one value both calls read.                             *)

Callers == {1, 2}

\* What the transport answers a caller with
CallerOutcomes ==
    {o \in TransportOutcomes :
        IF o.kind = "error" THEN o.cause = "connection refused"
        ELSE IF o.kind = "response"
        THEN /\ o.StatusCode \in {200, 404}
             /\ ~o.readErr
             /\ o.body \in {EmptyBody,
                            [doc |-> JObject([status |-> JString(<<"o", "k">>),
                                              message |-> Absent,
                                              count |-> JNumber(<<"1">>)]),
                             rest |-> << >>]}
        ELSE FALSE}

\* A newRequest that keeps the URL it resolved as the client's base URL
CallerBuildKeepingURL(p) ==
    /\ call[p].pc = "Build"
    /\ LET r == newRequest(client, "GET", DeviceURI(call[p].identifier), NilInterface, Nil)
       IN  /\ sent' = [sent EXCEPT ![p] = r.req]
           /\ call' = [call EXCEPT ![p] = Built(@, r)]
           /\ client' = IF r.err # "" THEN client ELSE [client EXCEPT !.baseURL = r.req.URL]
    /\ UNCHANGED <<builder, bval, fval, codec, reply, resp>>

\* Caller p: c.newRequest(http.MethodGet, "devices/" + identifier, nil, nil)
CallerBuild(p) ==
    /\ call[p].pc = "Build"
    /\ LET r == newRequest(client, "GET", DeviceURI(call[p].identifier), NilInterface, Nil)
       IN  /\ sent' = [sent EXCEPT ![p] = r.req]
           /\ call' = [call EXCEPT ![p] = Built(@, r)]
    /\ UNCHANGED <<client, builder, bval, fval, codec, reply, resp>>

\* Caller p: rawDo calls c.client.Do(req)
CallerSend(p) ==
    /\ call[p].pc = "Send"
    /\ call' = [call EXCEPT ![p] = [@ EXCEPT !.sends = @ + 1, !.pc = "InTransport",
                                             !.stages = Append(@, "Send")]]
    /\ UNCHANGED <<client, builder, sent, bval, fval, codec, reply, resp>>

\* Caller p: c.client.Do(req) returns
CallerTransportReturns(p) ==
    /\ call[p].pc = "InTransport"
    /\ call' = [call EXCEPT ![p] = rawDo(@, reply[p])]
    /\ UNCHANGED <<client, builder, sent, bval, fval, codec, reply, resp>>

\* Caller p: checkResponse(resp)
CallerCheckStatus(p) ==
    /\ call[p].pc = "CheckStatus"
    /\ LET err == checkResponse(reply[p], sent[p])
       IN  call' = [call EXCEPT ![p] =
                       IF err # NoError
                       THEN [@ EXCEPT !.err = err, !.pc = "Return",
                                      !.bodyClosed = reply[p].readErr,
                                      !.stages = Append(@, "CheckStatus")]
                       ELSE [@ EXCEPT !.pc = "Decode", !.stages = Append(@, "CheckStatus")]]
    /\ UNCHANGED <<client, builder, sent, bval, fval, codec, reply, resp>>

\* Caller p: json.NewDecoder(resp.Body).Decode(v)
CallerDecode(p) ==
    /\ call[p].pc = "Decode"
    /\ LET d == DecoderDecode(reply[p].body, call[p].target, BaseResponseFields)
       IN  call' = [call EXCEPT ![p] =
                       [@ EXCEPT !.target = d.v, !.err = DecodeError(d.err), !.pc = "Return",
                                 !.bodyClosed = TRUE, !.stages = Append(@, "Decode")]]
    /\ UNCHANGED <<client, builder, sent, bval, fval, codec, reply, resp>>

\* Caller p: GetDevice returns
CallerReturn(p) ==
    /\ call[p].pc = "Return"
    /\ resp' = [resp EXCEPT ![p] = [op |-> "GetDevice", err |-> call[p].err,
                                    target |-> call[p].target]]
    /\ call' = [call EXCEPT ![p] = [@ EXCEPT !.pc = "done", !.stages = Append(@, "Return")]]
    /\ UNCHANGED <<client, builder, sent, bval, fval, codec, reply>>

ConcurrentInit ==
    /\ client = New(<<"h", "t", "t", "p", ":", "/", "/", "h", "/">>, <<"t">>).c
    /\ builder = NoBuilder
    /\ call \in [Callers ->
                    {[op |-> "GetDevice", identifier |-> identifier, pc |-> "Build",
                      sends |-> 0, target |-> ZeroBaseResponse, err |-> NoError,
                      bodyClosed |-> FALSE, stages |-> << >>] :
                        identifier \in {<<"x">>, <<"1", "0">>, <<"%">>}}]
    /\ sent = [p \in Callers |-> NoRequest]
    /\ bval = FALSE
    /\ fval = FloatZero
    /\ codec = NoCodec
    /\ reply \in [Callers -> CallerOutcomes]
    /\ resp = [p \in Callers |-> NoResponse]

ConcurrentNext ==
    \E p \in Callers :
        \/ CallerBuild(p)
        \/ CallerSend(p)
        \/ CallerTransportReturns(p)
        \/ CallerCheckStatus(p)
        \/ CallerDecode(p)
        \/ CallerReturn(p)

SpecConcurrent == ConcurrentInit /\ [][ConcurrentNext]_vars

----------------------------------------------------------------------------
(* Two callers: claim C25 *)

\* What GetDevice(identifier) comes to when it is the only call on client c
\* and the transport answers it with outcome: the request and the result
AloneDone(req, err, target) ==
    [req |-> req, resp |-> [op |-> "GetDevice", err |-> err, target |-> target]]
AloneAnswered(req, outcome, statusErr, d) ==
    IF outcome.kind = "error"
    THEN AloneDone(req, [kind |-> "transport", cause |-> outcome.cause], ZeroBaseResponse)
    ELSE IF statusErr # NoError THEN AloneDone(req, statusErr, ZeroBaseResponse)
    ELSE AloneDone(req, DecodeError(d.err), d.v)
AloneBuilt(r, outcome) ==
    IF r.err # "" THEN AloneDone(NoRequest, [kind |-> "build", text |-> r.err], Nil)
    ELSE AloneAnswered(r.req, outcome,
                       IF outcome.kind = "error" THEN NoError
                       ELSE checkResponse(outcome, r.req),
                       IF outcome.kind = "error" THEN [err |-> "", v |-> ZeroBaseResponse]
                       ELSE DecoderDecode(outcome.body, ZeroBaseResponse, BaseResponseFields))
Alone(c, identifier, outcome) ==
    AloneBuilt(newRequest(c, "GET", DeviceURI(identifier), NilInterface, Nil), outcome)

\* C25: while two calls run on one client the client's base URL, token,
\* transport and logger stay as New left them, and in every interleaving
\* each call builds the request and returns the result that it builds and
\* returns as the only call, the transport answering it the same way.
C25_CallsDoNotInterfere ==
    /\ client = New(<<"h", "t", "t", "p", ":", "/", "/", "h", "/">>, <<"t">>).c
    /\ \A p \in Callers :
           LET alone == Alone(New(<<"h", "t", "t", "p", ":", "/", "/", "h", "/">>, <<"t">>).c,
                              call[p].identifier, reply[p])
           IN  /\ call[p].pc \notin {"Build"} => sent[p] = alone.req
               /\ resp[p] # NoResponse => resp[p] = alone.resp

\* The two calls are under way at once: the first caller waits for the
\* transport while the second decodes its answer, and each has built the
\* request for its own device
C25_Witness ==
    /\ call[1].pc = "InTransport"
    /\ call[2].pc = "Decode"
    /\ call[1].identifier = <<"x">>
    /\ call[2].identifier = <<"1", "0">>
    /\ sent[1].URL.Path = <<"/", "a", "p", "i", "/", "v", "0", "/", "d", "e", "v", "i", "c", "e", "s", "/", "x">>
    /\ sent[2].URL.Path = <<"/", "a", "p", "i", "/", "v", "0", "/", "d", "e", "v", "i", "c", "e", "s", "/", "1", "0">>
    /\ sent[1].XAuthToken = <<"t">>
    /\ sent[2].XAuthToken = <<"t">>

============================================================================
